---- MODULE Spec2Model ----
(***************************************************************************)
(* Beatbox: the authenticated-session state machine (AuthInfo), the        *)
(* request dispatcher (BaseSoapConnection.post / post2r), SOAP fault       *)
(* decoding, and the old-style Client session handling.                    *)
(*                                                                         *)
(* Strings that the code takes apart (fault codes, URLs) are sequences of  *)
(* tokens; ":" is a token of its own, so split(':') is computed.           *)
(* Python's None is the string "None" for strings, NoBody for the stored   *)
(* login envelope and NoneTime for the timestamp.                          *)
(*                                                                         *)
(* Envelopes are taken as AuthInfo and BaseSoapConnection use them: a      *)
(* login envelope is built from (username, password), and the envelope's   *)
(* decode_response unwraps the result as SoapEnvelope.post does. The       *)
(* configuration toggles gzipRequest / gzipResponse are taken as set; they *)
(* do not change what is sent or decoded.                                  *)
(***************************************************************************)
EXTENDS Integers, Sequences, FiniteSets, TLC

VARIABLES
    auth,    \* the AuthInfo object
    conn,    \* BaseSoapConnection.conn of the worker connection
    client,  \* the old-style Client object (sessionId, __serverUrl)
    now,     \* the value time.time() returns
    last,    \* what the most recent operation sent, received, returned or raised
    hist,    \* history: what the caller has told the session so far
    iters,   \* the handles derived from the client (Client.iterclient)
    heap,    \* the dict objects that handles refer to as their headers
    xml,     \* xmltramp: a document text, its tree, and the last result computed
    writer,  \* the request envelope most recently written, and its SoapWriter
    gen      \* the generator IterClient.gatherRecords returned, and the server's batches

vars == <<auth, conn, client, now, last, hist, iters, heap, xml, writer, gen>>

----------------------------------------------------------------------------
\* Bounds of the model

\* time.time() at construction (seconds since 1970; any realistic value is
\* far above safe_login_retry_delay)
Epoch == 1000
\* seconds the clock advances in one step
Tick == 300
\* number of clock steps
MaxTicks == 2
\* number of handles the caller derives from the client
MaxIters == 1
\* the number of letters that Pad stands for
PadLen == 23
\* the longest string given to quote, in characters of the model
MaxQuoteLen == 5
\* the most children of the root of a flat document
MaxChildren == 3
\* the number of writeStringElement calls on one SoapWriter
MaxWrites == 3
\* the number of calls on one XmlWriter
MaxCalls == 5
\* the batches of records the server holds for one query
MaxBatches == 3

----------------------------------------------------------------------------
\* Values

None == "None"
NoneTime == 0
safe_login_retry_delay == 600
\* quote puts text longer than this into a CDATA section
CDataMinLen == 24

Usernames == {"alice", "bob"}
Passwords == {"pw"}
SessionIds == {"sid1", "sid2"}
WorkerUrls == {"na1", "cs7"}
\* header blocks a caller may add to client.headers
HeaderNames == {"MruHeader"}
HeaderFields == { [updateMru |-> "true"], [updateMru |-> "false"] }
\* the sessions the servers issue: a session id and the worker server it lives on
Sessions == { <<"sid1", "na1">>, <<"sid2", "cs7">> }
SandboxFlags == {None, "True", "False"}
\* is_sandbox when the caller leaves it out
DefaultFlags == {None}

NoBody == [cls |-> None]

\* LoginRequest(username, password)
LoginRequest(username, password) ==
    [cls |-> "LoginRequest", username |-> username, password |-> password,
     orgId |-> None, portalId |-> None]

\* PortalLoginRequest(username, password, orgId, portalId)
PortalLoginRequest(username, password, orgId, portalId) ==
    [cls |-> "PortalLoginRequest", username |-> username, password |-> password,
     orgId |-> orgId, portalId |-> portalId]

LoginUrl(host) == <<"https://", host, ".salesforce.com/", "services/Soap/u/36.0">>

\* fault codes on the wire, as token sequences
FC_INVALID_SESSION == <<"sf", ":", "INVALID_SESSION_ID">>
FC_INVALID_LOGIN == <<"sf", ":", "INVALID_LOGIN">>
FC_OTHER == <<"sf", ":", "UNKNOWN_EXCEPTION">>

Fault(code, string) ==
    [kind |-> "fault", faultcode |-> code, faultstring |-> string,
     children |-> <<>>, sessionId |-> None, serverUrl |-> None]

FaultResponses ==
    { Fault(FC_INVALID_SESSION, "Session expired"),
      Fault(FC_INVALID_LOGIN, "Invalid username or password"),
      Fault(FC_OTHER, "Unknown") }

\* a fault-free response of a worker call: the children of the XXXXResponse wrapper
Ok(children) ==
    [kind |-> "ok", faultcode |-> <<>>, faultstring |-> "",
     children |-> children, sessionId |-> None, serverUrl |-> None]

\* a fault-free loginResponse
LoginOk(sid, url) ==
    [kind |-> "ok", faultcode |-> <<>>, faultstring |-> "",
     children |-> <<"result">>, sessionId |-> sid, serverUrl |-> url]

\* conn.request or conn.getresponse raises a network exception
NetworkError ==
    [kind |-> "error", faultcode |-> <<>>, faultstring |-> "ConnectionResetError",
     children |-> <<>>, sessionId |-> None, serverUrl |-> None]

WorkerResponses ==
    { Ok(<<"rec1">>), Ok(<<"rec1", "rec2">>), NetworkError } \cup FaultResponses
\* the responses to a call of the old-style client: also a wrapper without children
ClientResponses == WorkerResponses \cup { Ok(<<>>) }
LoginResponses == { LoginOk(s[1], s[2]) : s \in Sessions } \cup
                  { Fault(FC_INVALID_LOGIN, "Invalid username or password"),
                    Fault(FC_OTHER, "Unknown") }

----------------------------------------------------------------------------
\* BaseSoapConnection.post: fault detection and result unwrap

RECURSIVE LastColon(_, _)
\* the position of the last ":" among the first n tokens of s, 0 if none
LastColon(s, n) ==
    IF n = 0 THEN 0
    ELSE IF s[n] = ":" THEN n
    ELSE LastColon(s, n - 1)

\* str(fault.faultcode).split(':')[-1]
SplitLast(s) == SubSeq(s, LastColon(s, Len(s)) + 1, Len(s))

\* error_map.get(faultCode, SoapFaultError): the exception class raised
error_map_get(faultCode) ==
    IF faultCode = <<"sf", ":", "INVALID_SESSION_ID">> THEN "SoapInvalidSession"
    ELSE IF faultCode = <<"sf", ":", "INVALID_LOGIN">> THEN "SoapInvalidLogin"
    ELSE "SoapFaultError"

NoValue == [shape |-> "none", items |-> <<>>]

\* a variant of the unwrap that returns the list of children in every case
decode_always_list(children, alwaysReturnList) ==
    [shape |-> "list", items |-> children]

\* the result taken from the response wrapper: result[:], the list of its
\* children, or result[0], its single child (an IndexError when it has none)
decode_response(children, alwaysReturnList) ==
    IF alwaysReturnList \/ Len(children) > 1
    THEN [shape |-> "list", items |-> children]
    ELSE IF Len(children) = 0
    THEN [shape |-> "IndexError", items |-> <<>>]
    ELSE [shape |-> "single", items |-> <<children[1]>>]

\* the outcome of post for the response the transport gives: the exception
\* raised ("none" when post returns), its faultCode and faultString, and the
\* response body handed to the envelope's decoder
post(response) ==
    IF response.kind = "error"
    THEN [raised |-> response.faultstring, code |-> <<>>, message |-> "",
          body |-> response]
    ELSE IF response.kind = "fault"
    THEN LET faultString == response.faultstring
             faultCode == SplitLast(response.faultcode)
         IN [raised |-> error_map_get(faultCode), code |-> faultCode,
             message |-> faultString, body |-> response]
    ELSE [raised |-> "none", code |-> <<>>, message |-> "", body |-> response]

----------------------------------------------------------------------------
\* AuthInfo

\* AuthInfo.__init__; login_server_url is not set by the constructor, the
\* caller supplies it (Client.__init__ has the default URL)
AuthInfoInit(url) ==
    [session_id |-> None, worker_server_url |-> None, is_sandbox |-> None,
     auth_request_body |-> NoBody, failed_timestamp |-> NoneTime,
     login_server_url |-> url]

useSession(a, sessionId, serverUrl) ==
    [a EXCEPT !.session_id = sessionId,
              !.worker_server_url = serverUrl,
              !.auth_request_body = NoBody,
              !.failed_timestamp = NoneTime]

\* a variant of invalidate that forgets the session id but keeps the login envelope
invalidate_session_only(a) ==
    [a EXCEPT !.session_id = None]

invalidate(a) ==
    [a EXCEPT !.auth_request_body = NoBody, !.session_id = None]

\* a variant of the substitution that rewrites the host login only
re_sub_login(repl, url) ==
    IF /\ Len(url) >= 3
       /\ url[1] = "https://"
       /\ url[2] = "login"
       /\ url[3] = ".salesforce.com/"
    THEN [url EXCEPT ![2] = repl]
    ELSE url

\* re.sub(r'(?<=https://)(test|login)(?=\.salesforce\.com/)', repl, url)
re_sub_host(repl, url) ==
    IF /\ Len(url) >= 3
       /\ url[1] = "https://"
       /\ url[2] \in {"test", "login"}
       /\ url[3] = ".salesforce.com/"
    THEN [url EXCEPT ![2] = repl]
    ELSE url

\* a variant of the first test of reauth that asks for a session id instead
\* of a stored login envelope
no_session_id(a) == a.session_id = None

\* the first test of reauth: not self._auth_request_body
not_auth_request_body(a) == a.auth_request_body = NoBody

\* the guard of reauth against a repeated login soon after a failed one
login_retry_too_soon(a, t) ==
    /\ a.failed_timestamp # NoneTime
    /\ t < a.failed_timestamp
    /\ a.failed_timestamp < safe_login_retry_delay

\* reauth at time t, the login server answering lr: the AuthInfo afterwards,
\* the login requests sent, the responses read and the exception raised
reauth(a, t, lr) ==
    IF not_auth_request_body(a)
    THEN [auth |-> a, logins |-> <<>>, lrecv |-> <<>>, raised |-> "RuntimeError",
          code |-> <<>>, message |-> "Connection to SFDC not authenticated"]
    ELSE IF login_retry_too_soon(a, t)
    THEN [auth |-> a, logins |-> <<>>, lrecv |-> <<>>, raised |-> "SoapInvalidLogin",
          code |-> <<>>, message |-> "too soon after failed login"]
    ELSE
      LET a1 == IF a.is_sandbox # None
                THEN [a EXCEPT !.login_server_url =
                        re_sub_host(IF a.is_sandbox = "True" THEN "test" ELSE "login",
                                    a.login_server_url)]
                ELSE a
          sent == <<[url |-> a1.login_server_url, body |-> a1.auth_request_body]>>
          r == post(lr)
      IN IF r.raised = "SoapInvalidLogin"
         THEN [auth |-> [a1 EXCEPT !.failed_timestamp = t], logins |-> sent,
               lrecv |-> <<lr>>, raised |-> r.raised, code |-> r.code,
               message |-> r.message]
         ELSE IF r.raised # "none"
         THEN [auth |-> a1, logins |-> sent, lrecv |-> <<lr>>, raised |-> r.raised,
               code |-> r.code, message |-> r.message]
         ELSE [auth |-> useSession(a1, lr.sessionId, lr.serverUrl), logins |-> sent,
               lrecv |-> <<lr>>, raised |-> "none", code |-> <<>>, message |-> ""]

\* AuthInfo.login
login(a, username, password, is_sandbox, t, lr) ==
    reauth([a EXCEPT !.is_sandbox = is_sandbox,
                     !.auth_request_body = LoginRequest(username, password),
                     !.failed_timestamp = NoneTime], t, lr)

\* AuthInfo.portalLogin
portalLogin(a, username, password, orgId, portalId, is_sandbox, t, lr) ==
    reauth([a EXCEPT !.is_sandbox = is_sandbox,
                     !.auth_request_body =
                         PortalLoginRequest(username, password, orgId, portalId),
                     !.failed_timestamp = NoneTime], t, lr)

----------------------------------------------------------------------------
\* BaseSoapConnection.post2r on the worker connection

\* the envelope the creator method builds for the current session
envelope(a) == [operation |-> "call", session_id |-> a.session_id]

\* conn.request("POST", self.server_url, rawRequest, http_headers) on connection c
request(c, a, env) == [via |-> c, url |-> a.worker_server_url, envelope |-> env]

\* BaseSoapConnection.connect: open a connection unless there is one
connect(c, a) == IF c = None THEN a.worker_server_url ELSE c

\* a variant of the except clause that handles every SOAP fault
except_SoapFaultError(raised) ==
    raised \in {"SoapFaultError", "SoapInvalidSession", "SoapInvalidLogin"}

\* the except clause of post2r: which exceptions of post it handles
except_SoapInvalidSession(raised) == raised = "SoapInvalidSession"

\* what one dispatched call has done so far
NoTraffic == [sends |-> <<>>, recv |-> <<>>, logins |-> <<>>, lrecv |-> <<>>,
              reauths |-> 0]

RECURSIVE post2r_loop(_, _, _, _, _, _, _, _)
\* the while loop of post2r from its i-th pass, with retry as the code counts
\* it: script[i] answers the i-th request, lr answers a login request. The
\* auth object is an AuthInfo, so hasattr(self.auth, 'reauth') holds; a pass
\* beyond the last scripted response is not modelled (i < Len(script)).
post2r_loop(a, c, retry, i, script, lr, t, acc) ==
    LET c1 == connect(c, a)
        r == post(script[i])
        acc1 == [acc EXCEPT !.sends = Append(@, request(c1, a, envelope(a))),
                            !.recv = Append(@, script[i])]
        done(a2, acc2, raised, code, message, body) ==
            [auth |-> a2, conn |-> c1, traffic |-> acc2, raised |-> raised,
             code |-> code, message |-> message, body |-> body]
    IN IF except_SoapInvalidSession(r.raised)
       THEN IF retry < 2 /\ i < Len(script)
            THEN LET ra == reauth(a, t, lr)
                     acc2 == [acc1 EXCEPT !.logins = @ \o ra.logins,
                                          !.lrecv = @ \o ra.lrecv,
                                          !.reauths = @ + 1]
                 IN IF ra.raised # "none"
                    THEN done(ra.auth, acc2, ra.raised, ra.code, ra.message, r.body)
                    ELSE post2r_loop(ra.auth, c1, retry + 1, i + 1, script, lr, t, acc2)
            ELSE done(a, acc1, r.raised, r.code, r.message, r.body)
       ELSE done(a, acc1, r.raised, r.code, r.message, r.body)

post2r(a, c, script, lr, t) == post2r_loop(a, c, 1, 1, script, lr, t, NoTraffic)

----------------------------------------------------------------------------
\* The old-style Client

\* SoapEnvelope.post: every fault is raised as SoapFaultError
SoapEnvelope_post(response) ==
    IF response.kind = "error"
    THEN [raised |-> response.faultstring, code |-> <<>>, message |-> "",
          body |-> response]
    ELSE IF response.kind = "fault"
    THEN [raised |-> "SoapFaultError", code |-> SplitLast(response.faultcode),
          message |-> response.faultstring, body |-> response]
    ELSE [raised |-> "none", code |-> <<>>, message |-> "", body |-> response]

\* a dict is the sequence of its (key, value) items in insertion order
EmptyDict == <<>>

\* d[k] = v
dict_set(d, k, v) ==
    IF \E i \in 1..Len(d) : d[i][1] = k
    THEN [i \in 1..Len(d) |-> IF d[i][1] = k THEN <<k, v>> ELSE d[i]]
    ELSE Append(d, <<k, v>>)

\* del d[k]
dict_del(d, k) == SelectSeq(d, LAMBDA item : item[1] # k)

\* d.get(k, default)
dict_get(d, k, default) ==
    IF \E i \in 1..Len(d) : d[i][1] = k
    THEN d[CHOOSE i \in 1..Len(d) : d[i][1] = k][2]
    ELSE default

\* the dict objects: the one Client.__init__ creates for the client, and the
\* one IterClient.__init__ creates for a derived handle
DictIds == {"dict1", "dict2"}

\* Client.__init__: the login URL, no session and no connection yet; headers
\* refers to a new dict
ClientInit ==
    [serverUrl |-> LoginUrl("login"), sessionId |-> None,
     private_serverUrl |-> None, private_conn |-> None, headers |-> "dict1"]

\* IterClient.__init__: Client.__init__ for the new handle
IterClientInit == [ClientInit EXCEPT !.headers = "dict2"]

\* Client.iterclient: vars(client).update(vars(self)) binds every attribute
\* of the new handle to the object the parent's attribute refers to
Client_iterclient(cl) ==
    [f \in DOMAIN IterClientInit |-> IF f \in DOMAIN cl THEN cl[f] ELSE IterClientInit[f]]

\* the envelope of an AuthenticatedRequest of a handle: the session header
\* and the header blocks of the dict the handle refers to
AuthenticatedRequest(cl, operationName) ==
    [operation |-> operationName, session_id |-> cl.sessionId,
     headers |-> heap[cl.headers]]

\* Client.useSession: keeps the session and opens a connection to its server
Client_useSession(cl, sessionId, serverUrl) ==
    [cl EXCEPT !.sessionId = sessionId,
               !.private_serverUrl = serverUrl,
               !.private_conn = serverUrl]

\* Client.login, the login server answering lr
Client_login(cl, username, password, lr) ==
    LET r == SoapEnvelope_post(lr)
    IN IF r.raised # "none" THEN cl
       ELSE Client_useSession(cl, lr.sessionId, lr.serverUrl)

\* Client.logout: posts a LogoutRequest and returns its result
Client_logout(cl) == cl

----------------------------------------------------------------------------
\* XmlWriter, SoapWriter and SoapEnvelope.makeEnvelope
\*
\* A writer is its element stack (elems), the prefix mappings not yet written
\* (undeclared) and the document written so far (out), a sequence of events
\* as the generator receives them. A value to write is a record: a string,
\* None, or a list of values.

_partnerNs == "urn:partner.soap.sforce.com"
_sobjectNs == "urn:sobject.partner.soap.sforce.com"
_envNs == "http://schemas.xmlsoap.org/soap/envelope/"
xsiNs == "http://www.w3.org/2001/XMLSchema-instance"
\* the attribute mappings: _noAttrs, the mapping a caller passes to several
\* calls (attrs), and the mapping SoapWriter.writeStringElement creates
AttrIds == {"_noAttrs", "attrs", "new"}
_noAttrs == "_noAttrs"

Str(x) == [t |-> "str", v |-> x]
NoneValue == [t |-> "none", v |-> ""]
List(xs) == [t |-> "list", v |-> xs]
\* an xmltramp Element given as a value
Elem(x) == [t |-> "elem", v |-> x]

\* what the generator writes: a start tag (the name as written, q the prefix
\* of the name, the attributes with aq their prefixes, decls the xmlns
\* declarations), an end tag or character data
Event(e, ns, name, attrs, decls, text, q, aq) ==
    [e |-> e, ns |-> ns, name |-> name, attrs |-> attrs, decls |-> decls, text |-> text,
     q |-> q, aq |-> aq]

\* XmlWriter.__init__ with XMLGenerator.__init__: _current_context is the
\* dict that _ns_contexts holds (shared)
XmlWriterInit ==
    [out |-> <<>>, elems |-> <<>>, undeclared |-> <<>>, raised |-> "none",
     current_context |-> EmptyDict, ns_contexts |-> <<EmptyDict>>, shared |-> TRUE,
     dicts |-> [d \in AttrIds |-> EmptyDict]]

\* XmlWriter.startPrefixMapping: the generator saves a copy of the context,
\* maps the namespace to the prefix and keeps the mapping for the next start tag
startPrefixMapping(w, prefix, namespace) ==
    IF w.raised # "none" THEN w
    ELSE LET cur == dict_set(w.current_context, namespace, prefix)
             saved == Append(w.ns_contexts, w.current_context)
         IN [w EXCEPT !.ns_contexts = IF w.shared THEN [saved EXCEPT ![1] = cur] ELSE saved,
                      !.current_context = cur,
                      !.undeclared = Append(@, <<prefix, namespace>>)]

\* XmlWriter.endPrefixMapping: the context saved last becomes the current one
endPrefixMapping(w, prefix) ==
    IF w.raised # "none" THEN w
    ELSE IF w.ns_contexts = <<>> THEN [w EXCEPT !.raised = "IndexError"]
    ELSE [w EXCEPT !.current_context = w.ns_contexts[Len(w.ns_contexts)],
                   !.ns_contexts = SubSeq(@, 1, Len(@) - 1),
                   !.shared = FALSE]

\* is there a prefix for the namespace of the name
HasName(w, name) == name[1] = None \/ dict_get(w.current_context, name[1], None) # None

\* BeatBoxXmlGenerator.makeName: the prefix written before the local name
makeName(w, name) ==
    IF name[1] = None THEN None ELSE dict_get(w.current_context, name[1], None)

\* XmlWriter.startElement, with BeatBoxXmlGenerator.startElementNS: the name,
\* the mappings not yet declared, the attributes; a namespace without a
\* prefix in the current context raises KeyError
startElement(w, namespace, name, attrs) ==
    IF w.raised # "none" THEN w
    ELSE IF ~HasName(w, <<namespace, name>>) THEN [w EXCEPT !.raised = "KeyError"]
    ELSE LET a == w.dicts[attrs]
             bad == { i \in 1..Len(a) : ~HasName(w, a[i][1]) }
             n == IF bad = {} THEN Len(a)
                  ELSE (CHOOSE i \in bad : \A j \in bad : i <= j) - 1
             written == SubSeq(a, 1, n)
             ev == Event("start", namespace, name, written, w.undeclared, "",
                         makeName(w, <<namespace, name>>),
                         [i \in 1..n |-> makeName(w, a[i][1])])
         IN IF bad # {}
            THEN [w EXCEPT !.out = Append(@, ev), !.undeclared = <<>>,
                           !.raised = "KeyError"]
            ELSE [w EXCEPT !.out = Append(@, ev), !.undeclared = <<>>,
                           !.elems = Append(@, <<namespace, name>>)]

\* a variant of endElement that ends the element opened first
endElement_first(w) ==
    IF w.raised # "none" THEN w
    ELSE IF w.elems = <<>>
    THEN [w EXCEPT !.raised = "IndexError"]
    ELSE LET e == w.elems[1]
         IN [w EXCEPT !.out = Append(@, Event("end", e[1], e[2], <<>>, <<>>, "",
                                              makeName(w, e), <<>>)),
                      !.elems = Tail(@)]

\* XmlWriter.endElement: ends the element on top of the stack
endElement(w) ==
    IF w.raised # "none" THEN w
    ELSE IF w.elems = <<>>
    THEN [w EXCEPT !.raised = "IndexError"]
    ELSE LET e == w.elems[Len(w.elems)]
         IN IF ~HasName(w, e) THEN [w EXCEPT !.raised = "KeyError"]
            ELSE [w EXCEPT !.out = Append(@, Event("end", e[1], e[2], <<>>, <<>>, "",
                                                   makeName(w, e), <<>>)),
                           !.elems = SubSeq(@, 1, Len(@) - 1)]

IntValue(n) == [t |-> "int", v |-> n]

\* XmlWriter.characters: an int is written as str(s), a string as it is; the
\* generator writes nothing for an empty string or any other false value, and
\* fails to decode a value that is neither text nor bytes, as an xmltramp
\* Element with children is
characters(w, s) ==
    LET content == IF s.t = "int" THEN ToString(s.v) ELSE s.v
    IN IF w.raised # "none" THEN w
       ELSE IF s.t = "elem"
       THEN IF s.v.dir = <<>> THEN w ELSE [w EXCEPT !.raised = "TypeError"]
       ELSE IF content = "" THEN w
       ELSE [w EXCEPT !.out = Append(@, Event("chars", "", "", <<>>, <<>>, content,
                                              None, <<>>))]

RECURSIVE XmlWriter_writeStringElement(_, _, _, _, _)
RECURSIVE writeStringElement(_, _, _, _, _)
\* a variant of XmlWriter.writeStringElement that writes the first value of a
\* list only
XmlWriter_writeStringElement_first(w, namespace, name, value, attrs) ==
    IF value.t = "list"
    THEN IF value.v = <<>> THEN w
         ELSE writeStringElement(w, namespace, name, Head(value.v), attrs)
    ELSE endElement(characters(startElement(w, namespace, name, attrs), value))

\* XmlWriter.writeStringElement: for a list, self.writeStringElement for each
\* of its values
XmlWriter_writeStringElement(w, namespace, name, value, attrs) ==
    IF value.t = "list"
    THEN IF value.v = <<>> THEN w
         ELSE XmlWriter_writeStringElement(
                  writeStringElement(w, namespace, name, Head(value.v), attrs),
                  namespace, name, List(Tail(value.v)), attrs)
    ELSE endElement(characters(startElement(w, namespace, name, attrs), value))

\* a variant of SoapWriter.writeStringElement that leaves a None value out
writeStringElement_omit(w, namespace, name, value, attrs) ==
    IF value.t = "none" THEN w
    ELSE XmlWriter_writeStringElement(w, namespace, name, value, attrs)

\* SoapWriter.writeStringElement: None is written as an empty xsi:nil element;
\* xsi:nil is put into the caller's mapping when that is not empty, into a
\* new mapping otherwise
writeStringElement(w, namespace, name, value, attrs) ==
    IF value.t = "none"
    THEN IF w.dicts[attrs] # EmptyDict
         THEN XmlWriter_writeStringElement(
                  [w EXCEPT !.dicts[attrs] = dict_set(@, <<xsiNs, "nil">>, "true")],
                  namespace, name, Str(""), attrs)
         ELSE XmlWriter_writeStringElement(
                  [w EXCEPT !.dicts["new"] = << <<<<xsiNs, "nil">>, "true">> >>],
                  namespace, name, Str(""), "new")
    ELSE XmlWriter_writeStringElement(w, namespace, name, value, attrs)

\* SoapWriter.__init__
SoapWriterInit ==
    startElement(
        startPrefixMapping(startPrefixMapping(startPrefixMapping(startPrefixMapping(
            XmlWriterInit, "s", _envNs), "p", _partnerNs), "o", _sobjectNs), "x", xsiNs),
        _envNs, "Envelope", _noAttrs)

\* SoapWriter.endDocument
endDocument(w) ==
    endPrefixMapping(endPrefixMapping(endPrefixMapping(endPrefixMapping(
        endElement(w), "o"), "p"), "s"), "x")

\* a request envelope: its class, operation name, client id, session id,
\* header blocks, portal login scope, batch size and the fields writeBody writes
SoapEnvelope(cls, operationName, sessionId, headers, body) ==
    [cls |-> cls, operationName |-> operationName, clientId |-> "BeatBox/0.96",
     sessionId |-> sessionId, headers |-> headers, orgId |-> Str("org"),
     portalId |-> NoneValue, batchSize |-> IntValue(500), body |-> body]

RECURSIVE writeFields(_, _, _)
\* s.writeStringElement(namespace, key, value) for each field in turn
writeFields(w, namespace, fields) ==
    IF fields = <<>> THEN w
    ELSE writeFields(writeStringElement(w, namespace, fields[1][1], fields[1][2], _noAttrs),
                     namespace, Tail(fields))

RECURSIVE writeHeaderBlocks(_, _)
\* the loop of AuthenticatedRequest.writeHeaders over self.headers.items()
writeHeaderBlocks(w, headers) ==
    IF headers = <<>> THEN w
    ELSE writeHeaderBlocks(
             endElement(writeFields(startElement(w, _partnerNs, headers[1][1], _noAttrs),
                                    _partnerNs, headers[1][2])),
             Tail(headers))

\* AuthenticatedRequest.writeHeaders
AuthenticatedRequest_writeHeaders(env, w) ==
    writeHeaderBlocks(
        endElement(writeStringElement(startElement(w, _partnerNs, "SessionHeader", _noAttrs),
                                      _partnerNs, "sessionId", env.sessionId, _noAttrs)),
        env.headers)

\* writeHeaders of the envelope's class
writeHeaders(env, w) ==
    IF env.cls = "PortalLoginRequest"
    THEN LET w1 == writeStringElement(
                       startElement(w, _partnerNs, "LoginScopeHeader", _noAttrs),
                       _partnerNs, "organizationId", env.orgId, _noAttrs)
             w2 == IF ~(env.portalId.t = "none" \/ env.portalId = Str(""))
                   THEN writeStringElement(w1, _partnerNs, "portalId", env.portalId, _noAttrs)
                   ELSE w1
         IN endElement(w2)
    ELSE IF env.cls = "AuthenticatedRequest"
    THEN AuthenticatedRequest_writeHeaders(env, w)
    ELSE IF env.cls = "QueryOptionsRequest"
    THEN endElement(writeStringElement(
             startElement(AuthenticatedRequest_writeHeaders(env, w),
                          _partnerNs, "QueryOptions", _noAttrs),
             _partnerNs, "batchSize", env.batchSize, _noAttrs))
    ELSE w

\* writeBody of the request classes: the fields of the operation in turn
writeBody(env, w) == writeFields(w, _partnerNs, env.body)

\* SoapEnvelope.makeEnvelope: the writer when the document is finished
makeEnvelope(env) ==
    LET s0 == SoapWriterInit
        s1 == characters(startElement(s0, _envNs, "Header", _noAttrs), Str("\n"))
        s2 == endElement(writeStringElement(
                  startElement(s1, _partnerNs, "CallOptions", _noAttrs),
                  _partnerNs, "client", Str(env.clientId), _noAttrs))
        s3 == endElement(writeHeaders(env, characters(s2, Str("\n"))))
        s4 == characters(startElement(s3, _envNs, "Body", _noAttrs), Str("\n"))
        s5 == writeBody(env, startElement(s4, _partnerNs, env.operationName, _noAttrs))
    IN endDocument(endElement(endElement(s5)))

----------------------------------------------------------------------------
\* xmltramp: text
\*
\* A string is the sequence of its characters. Pad stands for a run of
\* PadLen letters; an entity name (amp, lt, gt, quot) is one character of the
\* model, and so is the opening of a CDATA section.

Pad == "aaaaaaaaaaaaaaaaaaaaaaa"
CDataOpen == "<![CDATA["

\* len(x)
StrLen(x) ==
    Len(x) + (PadLen - 1) * Cardinality({ i \in 1..Len(x) : x[i] = Pad })

\* x starts with pat at position i
StartsWith(x, i, pat) ==
    /\ i + Len(pat) - 1 <= Len(x)
    /\ \A k \in 1..Len(pat) : x[i + k - 1] = pat[k]

\* x.find(pat), from position i on: the first position of pat, 0 for -1
Find(x, i, pat) ==
    IF \E j \in i..Len(x) : StartsWith(x, j, pat)
    THEN CHOOSE j \in i..Len(x) :
            /\ StartsWith(x, j, pat)
            /\ \A k \in i..(j - 1) : ~StartsWith(x, k, pat)
    ELSE 0

RECURSIVE Replace(_, _, _)
\* x.replace(pat, new)
Replace(x, pat, new) ==
    LET j == Find(x, 1, pat)
    IN IF j = 0 THEN x
       ELSE SubSeq(x, 1, j - 1) \o new
            \o Replace(SubSeq(x, j + Len(pat), Len(x)), pat, new)

CDataEnd == <<"]", "]", ">">>

\* a variant of quote that puts every long text with "<" into a CDATA section
quote_cdata_unchecked(x, elt) ==
    IF elt /\ (\E i \in 1..Len(x) : x[i] = "<") /\ StrLen(x) > CDataMinLen
    THEN <<CDataOpen>> \o x \o CDataEnd
    ELSE Replace(Replace(Replace(x, <<"&">>, <<"&", "amp", ";">>),
                         <<"<">>, <<"&", "lt", ";">>),
                 CDataEnd, <<"]", "]", "&", "gt", ";">>)

\* quote(x, elt)
quote(x, elt) ==
    IF elt /\ (\E i \in 1..Len(x) : x[i] = "<") /\ StrLen(x) > CDataMinLen
           /\ Find(x, 1, CDataEnd) = 0
    THEN <<CDataOpen>> \o x \o CDataEnd
    ELSE LET x1 == Replace(Replace(Replace(x, <<"&">>, <<"&", "amp", ";">>),
                                   <<"<">>, <<"&", "lt", ";">>),
                           CDataEnd, <<"]", "]", "&", "gt", ";">>)
         IN IF ~elt THEN Replace(x1, <<"\"">>, <<"&", "quot", ";">>) ELSE x1

\* the character an entity reference stands for
EntityChar(name) ==
    IF name = "amp" THEN "&"
    ELSE IF name = "lt" THEN "<"
    ELSE IF name = "gt" THEN ">"
    ELSE "\""

RECURSIVE EndOfLine(_)
\* the parser's reading of line ends: a carriage return, with the line feed
\* after it if there is one, is read as one line feed
EndOfLine(s) ==
    IF s = <<>> THEN <<>>
    ELSE IF s[1] = "\r"
    THEN IF Len(s) >= 2 /\ s[2] = "\n"
         THEN EndOfLine(Tail(s))
         ELSE <<"\n">> \o EndOfLine(Tail(s))
    ELSE <<s[1]>> \o EndOfLine(Tail(s))

RECURSIVE DecodeFrom(_, _, _)
\* the parser reading character data from position i on, acc being the
\* characters read so far: entity references and CDATA sections are
\* resolved; a bare "<" or "&" and a "]]>" outside a CDATA section are not
\* well-formed
DecodeFrom(raw, i, acc) ==
    IF i > Len(raw) THEN [ok |-> TRUE, s |-> acc]
    ELSE IF raw[i] = CDataOpen
    THEN LET j == Find(raw, i + 1, CDataEnd)
         IN IF j = 0 THEN [ok |-> FALSE, s |-> <<>>]
            ELSE DecodeFrom(raw, j + 3, acc \o SubSeq(raw, i + 1, j - 1))
    ELSE IF raw[i] = "&"
    THEN IF /\ i + 2 <= Len(raw)
            /\ raw[i + 1] \in {"amp", "lt", "gt", "quot"}
            /\ raw[i + 2] = ";"
         THEN DecodeFrom(raw, i + 3, Append(acc, EntityChar(raw[i + 1])))
         ELSE [ok |-> FALSE, s |-> <<>>]
    ELSE IF raw[i] = "<" \/ StartsWith(raw, i, CDataEnd)
    THEN [ok |-> FALSE, s |-> <<>>]
    ELSE DecodeFrom(raw, i + 1, Append(acc, raw[i]))

\* the parser reading character data: line ends are normalised before
\* anything else is read
Decode(raw, i, acc) == DecodeFrom(EndOfLine(raw), i, acc)

Whitespace == {" ", "\n", "\r"}

\* ch.isspace()
isspace(ch) == ch # <<>> /\ \A i \in 1..Len(ch) : ch[i] \in Whitespace

RECURSIVE JoinSplit(_, _, _)
\* ' '.join(text.split()): the words of text with one space between them;
\* started tells that a word has been written, pending that whitespace was
\* read after it
JoinSplit(text, pending, started) ==
    IF text = <<>> THEN <<>>
    ELSE IF Head(text) \in Whitespace
    THEN JoinSplit(Tail(text), started, started)
    ELSE (IF pending THEN <<" ">> ELSE <<>>) \o <<Head(text)>>
         \o JoinSplit(Tail(text), FALSE, TRUE)

----------------------------------------------------------------------------
\* xmltramp: Element, Seeder, parse
\*
\* A document text is the sequence of its tags and character data. A prefix
\* or namespace that is absent is None. A name is (uri, local) as the parser
\* gives it, uri being None outside every namespace; in an Element a name is
\* the pair <<uri, local>> or, for a plain string, <<local>>. Elements have
\* at most one attribute here (sorted(a.keys()) has nothing to order).

Tag(prefix, local, decls, attrs) ==
    [k |-> "start", prefix |-> prefix, local |-> local, decls |-> decls,
     attrs |-> attrs, s |-> <<>>]
Text(s) ==
    [k |-> "text", prefix |-> None, local |-> "", decls |-> <<>>, attrs |-> <<>>, s |-> s]
EndTag ==
    [k |-> "end", prefix |-> None, local |-> "", decls |-> <<>>, attrs |-> <<>>, s |-> <<>>]

\* a text child of an element
TextNode(s) ==
    [kind |-> "text", name |-> <<>>, attrs |-> <<>>, dir |-> <<>>,
     prefixes |-> <<>>, dNS |-> None, s |-> s]

RECURSIVE Invert(_, _)
\* dict(zip(prefixes.values(), prefixes.keys())), from acc on
Invert(prefixes, acc) ==
    IF prefixes = <<>> THEN acc
    ELSE Invert(Tail(prefixes), dict_set(acc, prefixes[1][2], prefixes[1][1]))

\* a variant of Element.__init__ that puts an attribute without a namespace
\* into the default namespace in scope
Element_default_attrs(name, attrs, children, prefixes) ==
    [kind |-> "elem",
     name |-> IF name[1] = None THEN <<name[2]>> ELSE name,
     attrs |-> [i \in 1..Len(attrs) |->
                  IF attrs[i][1][1] = None
                  THEN IF dict_get(prefixes, None, None) # None
                       THEN << <<dict_get(prefixes, None, None), attrs[i][1][2]>>,
                               attrs[i][2] >>
                       ELSE << <<attrs[i][1][2]>>, attrs[i][2] >>
                  ELSE attrs[i]],
     dir |-> children,
     prefixes |-> Invert(prefixes, <<>>),
     dNS |-> dict_get(prefixes, None, None),
     s |-> <<>>]

\* Element.__init__
Element(name, attrs, children, prefixes) ==
    [kind |-> "elem",
     name |-> IF name[1] = None THEN <<name[2]>> ELSE name,
     attrs |-> [i \in 1..Len(attrs) |->
                  IF attrs[i][1][1] = None
                  THEN << <<attrs[i][1][2]>>, attrs[i][2] >>
                  ELSE attrs[i]],
     dir |-> children,
     prefixes |-> Invert(prefixes, <<>>),
     dNS |-> dict_get(prefixes, None, None),
     s |-> <<>>]

NoElement == Element(<<None, "">>, <<>>, <<>>, <<>>)

\* Seeder.__init__
SeederInit == [stack |-> <<>>, ch |-> <<>>, prefixes |-> <<>>, result |-> NoElement]

\* Seeder.startPrefixMapping
Seeder_startPrefixMapping(sd, prefix, uri) ==
    [sd EXCEPT !.prefixes =
        dict_set(@, prefix, Append(dict_get(@, prefix, <<>>), uri))]

\* Seeder.endPrefixMapping
Seeder_endPrefixMapping(sd, prefix) ==
    LET uris == dict_get(sd.prefixes, prefix, <<>>)
        popped == SubSeq(uris, 1, Len(uris) - 1)
    IN [sd EXCEPT !.prefixes =
           IF Len(popped) = 0 THEN dict_del(@, prefix) ELSE dict_set(@, prefix, popped)]

\* the first lines of startElementNS and endElementNS: the character data
\* read so far becomes a child of the open element unless it is all whitespace
flush(sd) ==
    IF sd.ch # <<>> /\ ~isspace(sd.ch)
    THEN [sd EXCEPT !.stack[Len(sd.stack)].dir = Append(@, TextNode(sd.ch)),
                    !.ch = <<>>]
    ELSE [sd EXCEPT !.ch = <<>>]

\* Seeder.startElementNS
Seeder_startElementNS(sd, name, attrs) ==
    LET sd1 == flush(sd)
        newprefixes == [i \in 1..Len(sd1.prefixes) |->
                          << sd1.prefixes[i][1],
                             sd1.prefixes[i][2][Len(sd1.prefixes[i][2])] >>]
    IN [sd1 EXCEPT !.stack = Append(@, Element(name, attrs, <<>>, newprefixes))]

\* Seeder.characters
Seeder_characters(sd, ch) == [sd EXCEPT !.ch = @ \o ch]

\* Seeder.endElementNS
Seeder_endElementNS(sd) ==
    LET sd1 == flush(sd)
        element == sd1.stack[Len(sd1.stack)]
        stack == SubSeq(sd1.stack, 1, Len(sd1.stack) - 1)
    IN IF stack # <<>>
       THEN [sd1 EXCEPT !.stack = [stack EXCEPT ![Len(stack)].dir = Append(@, element)]]
       ELSE [sd1 EXCEPT !.stack = stack, !.result = element]

RECURSIVE Lookup(_, _)
\* the namespace that a prefix is bound to in the scopes ctx (the
\* declarations of the open elements, innermost last), None if unbound
Lookup(ctx, prefix) ==
    IF ctx = <<>> THEN None
    ELSE LET inner == ctx[Len(ctx)]
         IN IF \E i \in 1..Len(inner) : inner[i][1] = prefix
            THEN dict_get(inner, prefix, None)
            ELSE Lookup(SubSeq(ctx, 1, Len(ctx) - 1), prefix)

RECURSIVE startMappings(_, _)
\* the parser calls startPrefixMapping for each declaration of a start tag
startMappings(sd, decls) ==
    IF decls = <<>> THEN sd
    ELSE startMappings(Seeder_startPrefixMapping(sd, decls[1][1], decls[1][2]),
                       Tail(decls))

RECURSIVE endMappings(_, _)
\* the parser calls endPrefixMapping for each declaration of the element ended
endMappings(sd, decls) ==
    IF decls = <<>> THEN sd
    ELSE endMappings(Seeder_endPrefixMapping(sd, decls[1][1]), Tail(decls))

ParseError == [ok |-> FALSE, tree |-> NoElement]

RECURSIVE sax_parse(_, _, _, _)
\* the namespace-aware parser that seed sets up, reading the text from its
\* i-th part on: an element name without prefix is in the default namespace
\* in scope, an attribute name without prefix is in no namespace
sax_parse(text, i, sd, ctx) ==
    IF i > Len(text) THEN [ok |-> TRUE, tree |-> sd.result]
    ELSE LET tok == text[i]
         IN IF tok.k = "start"
            THEN LET ctx1 == Append(ctx, tok.decls)
                     name == <<Lookup(ctx1, tok.prefix), tok.local>>
                     values == [j \in 1..Len(tok.attrs) |-> Decode(tok.attrs[j][3], 1, <<>>)]
                     attrs == [j \in 1..Len(tok.attrs) |->
                                 << << IF tok.attrs[j][1] = None THEN None
                                       ELSE Lookup(ctx1, tok.attrs[j][1]),
                                       tok.attrs[j][2] >>,
                                    values[j].s >>]
                 IN IF \E j \in 1..Len(values) : ~values[j].ok
                    THEN ParseError
                    ELSE sax_parse(text, i + 1,
                             Seeder_startElementNS(startMappings(sd, tok.decls), name, attrs),
                             ctx1)
            ELSE IF tok.k = "text"
            THEN LET data == Decode(tok.s, 1, <<>>)
                 IN IF ~data.ok THEN ParseError
                    ELSE sax_parse(text, i + 1, Seeder_characters(sd, data.s), ctx)
            ELSE sax_parse(text, i + 1,
                     endMappings(Seeder_endElementNS(sd), ctx[Len(ctx)]),
                     SubSeq(ctx, 1, Len(ctx) - 1))

\* parse(text)
parse(text) == sax_parse(text, 1, SeederInit, <<>>)

----------------------------------------------------------------------------
\* xmltramp: Element.__repr__, __str__, __getitem__

XmlNs == "http://www.w3.org/XML/1998/namespace"

\* the namespaces of the documents, in the order sorted() gives them
SortedUris == <<"A", "B">>

\* qname of __repr__: the prefix (None for none) and the local name written
qname(name, inprefixes) ==
    IF Len(name) = 2
    THEN IF dict_get(inprefixes, name[1], "KeyError") # None
         THEN <<dict_get(inprefixes, name[1], "KeyError"), name[2]>>
         ELSE <<None, name[2]>>
    ELSE <<None, name[1]>>

RECURSIVE arep_prefixes(_, _, _, _)
\* the first loop of arep over the namespaces p in scope at the element
\* (own: namespace to prefix): a namespace not yet in inprefixes is declared
\* and entered into inprefixes
arep_prefixes(ps, own, inprefixes, decls) ==
    IF ps = <<>> THEN [inprefixes |-> inprefixes, decls |-> decls]
    ELSE LET p == Head(ps)
         IN IF \E i \in 1..Len(inprefixes) : inprefixes[i][1] = p
            THEN arep_prefixes(Tail(ps), own, inprefixes, decls)
            ELSE arep_prefixes(Tail(ps), own,
                     dict_set(inprefixes, p, dict_get(own, p, None)),
                     Append(decls, <<dict_get(own, p, None), p>>))

RECURSIVE repr(_, _, _)
RECURSIVE repr_children(_, _, _)
\* Element.__repr__(recursive, 0, inprefixes): the text written. An empty
\* element of the XHTML list is written as one tag, which reads as a start
\* tag and an end tag.
repr(node, recursive, inprefixes0) ==
    LET inprefixes1 == IF inprefixes0 = <<>> THEN << <<XmlNs, "xml">> >>
                       ELSE inprefixes0
        a == arep_prefixes(
                 SelectSeq(SortedUris,
                           LAMBDA u : \E i \in 1..Len(node.prefixes) :
                                         node.prefixes[i][1] = u),
                 node.prefixes, inprefixes1, <<>>)
        inprefixes == a.inprefixes
        attributes == [i \in 1..Len(node.attrs) |->
                         LET q == qname(node.attrs[i][1], inprefixes)
                         IN <<q[1], q[2], quote(node.attrs[i][2], FALSE)>>]
        q == qname(node.name, inprefixes)
    IN << Tag(q[1], q[2], IF recursive > 0 THEN a.decls ELSE <<>>, attributes) >>
       \o (IF recursive > 0 THEN repr_children(node.dir, recursive, inprefixes)
           ELSE IF node.dir # <<>> THEN << Text(<<"...">>) >>
           ELSE <<>>)
       \o << EndTag >>

\* the loop of __repr__ over self._dir
repr_children(dir, recursive, inprefixes) ==
    IF dir = <<>> THEN <<>>
    ELSE (IF Head(dir).kind = "text"
          THEN << Text(quote(Head(dir).s, TRUE)) >>
          ELSE repr(Head(dir), recursive + 1, inprefixes))
         \o repr_children(Tail(dir), recursive, inprefixes)

RECURSIVE Element_str(_)
RECURSIVE str_children(_)
\* Element.__str__
Element_str(node) == JoinSplit(str_children(node.dir), FALSE, FALSE)

\* the loop of __str__: text += text_type(x) for each child
str_children(dir) ==
    IF dir = <<>> THEN <<>>
    ELSE (IF Head(dir).kind = "text" THEN Head(dir).s ELSE Element_str(Head(dir)))
         \o str_children(Tail(dir))

\* the name that __getitem__ looks for: a plain string is taken to be in the
\* default namespace of the node
getitem_name(node, n) ==
    IF node.dNS # None /\ Len(n) = 1 THEN <<node.dNS, n[1]>> ELSE n

\* Element.__getitem__(slice(n, None)): d[n:], all children named n
getslice(node, n) ==
    SelectSeq(node.dir, LAMBDA x : x.kind = "elem" /\ x.name = getitem_name(node, n))

\* a variant of __getitem__ that returns the last child of that name
getitem_last(node, n) ==
    LET out == getslice(node, n)
    IN IF out = <<>> THEN [raised |-> "KeyError", items |-> <<>>]
       ELSE [raised |-> "none", items |-> <<out[Len(out)]>>]

\* Element.__getitem__(n) for a name: d[n], the first child named n
getitem(node, n) ==
    LET found == { i \in 1..Len(node.dir) :
                     node.dir[i].kind = "elem"
                     /\ node.dir[i].name = getitem_name(node, n) }
    IN IF found = {} THEN [raised |-> "KeyError", items |-> <<>>]
       ELSE [raised |-> "none",
             items |-> << node.dir[CHOOSE i \in found : \A j \in found : i <= j] >>]

\* what Element.__setitem__ leaves: the exception raised, if any, and the tree
Assigned(raised, node, dir) == [raised |-> raised, tree |-> [node EXCEPT !.dir = dir]]

RECURSIVE del_items(_, _)
\* for i in sorted(todel, reverse=True): del self[i]
del_items(dir, todel) ==
    IF todel = <<>> THEN dir
    ELSE LET i == todel[Len(todel)]
         IN del_items(SubSeq(dir, 1, i - 1) \o SubSeq(dir, i + 1, Len(dir)),
                      SubSeq(todel, 1, Len(todel) - 1))

RECURSIVE setitem_loop(_, _, _, _, _, _)
\* Element.__setitem__(n, v) for a name, from child i on: the first child named
\* n is replaced by nv and the later ones are noted for deletion; a text child
\* is a string, which has no _name
setitem_loop(node, dir, n, nv, i, st) ==
    IF i > Len(dir)
    THEN Assigned("none", node,
                  del_items(IF st.replaced THEN dir ELSE Append(dir, nv), st.todel))
    ELSE IF dir[i].kind = "text" THEN Assigned("AttributeError", node, dir)
    ELSE IF dir[i].name = n
    THEN IF st.replaced
         THEN setitem_loop(node, dir, n, nv, i + 1,
                           [st EXCEPT !.todel = Append(st.todel, i)])
         ELSE setitem_loop(node, [dir EXCEPT ![i] = nv], n, nv, i + 1,
                           [st EXCEPT !.replaced = TRUE])
    ELSE setitem_loop(node, dir, n, nv, i + 1, st)

\* Element.__setitem__(n, v) for a name: d[n] = v
setitem(node, n, v) ==
    LET q == getitem_name(node, n)
        nv == Element(q, <<>>, << TextNode(v) >>, <<>>)
    IN setitem_loop(node, node.dir, q, nv, 1, [replaced |-> FALSE, todel |-> <<>>])

\* Element.__setitem__(slice(n, None), v): d[n:] = v
setslice(node, n, v) ==
    Assigned("none", node,
             Append(node.dir, Element(getitem_name(node, n), <<>>, <<>>, <<>>)))

----------------------------------------------------------------------------
\* IterClient: the generator of the records of a query
\*
\* The server holds the result of a query as batches; a batch is the result
\* element of a query or queryMore response: done, queryLocator and the
\* records. A generator is the handle it reads, the records of the running
\* for loop with the number of them already yielded, and where it stands:
\* created (no next() yet), suspended (at the yield), done or raised.

TrueText == <<"t", "r", "u", "e">>
FalseText == <<"f", "a", "l", "s", "e">>

\* the text between the tags of a response element
Content(s) == IF s = <<>> THEN <<>> ELSE << Text(s) >>

RECURSIVE RecordsText(_)
\* the records elements of a batch, one after the other
RecordsText(recs) ==
    IF recs = <<>> THEN <<>>
    ELSE << Tag(None, "records", <<>>, <<>>), Text(Head(recs)), EndTag >>
         \o RecordsText(Tail(recs))

\* the result element of a response, in the namespace of the partner API
BatchText(b) ==
    << Tag(None, "result", << <<None, _partnerNs>> >>, <<>>) >>
    \o << Tag(None, "done", <<>>, <<>>) >> \o Content(b.done) \o << EndTag >>
    \o << Tag(None, "queryLocator", <<>>, <<>>) >> \o Content(b.loc) \o << EndTag >>
    \o RecordsText(b.recs)
    \o << EndTag >>

\* SoapEnvelope.post for a query, with the request written as w: it is sent and
\* the result element of the response the server gives next is returned;
\* nothing is sent when the request could not be written
conn_request(g, env, w) ==
    IF w.raised # "none" THEN [g EXCEPT !.status = "raised", !.raised = w.raised]
    ELSE IF g.script = <<>> THEN [g EXCEPT !.status = "raised", !.raised = "timeout"]
    ELSE [g EXCEPT !.sent = Append(@, env.operationName),
                   !.script = Tail(@),
                   !.handle = parse(BatchText(Head(g.script))).tree]

\* SoapEnvelope.post for a query
Client_post(g, env) == conn_request(g, env, makeEnvelope(env))

\* the request of Client.query and Client.queryMore
QueryEnvelope(cl, operationName, field, value) ==
    SoapEnvelope("QueryOptionsRequest", operationName,
                 IF cl.sessionId = None THEN NoneValue ELSE Str(cl.sessionId),
                 heap[cl.headers], << <<field, value>> >>)

\* Client.query(soql)
Client_query(g, cl, soql) == Client_post(g, QueryEnvelope(cl, "query", "queryString", Str(soql)))

\* Client.queryMore(queryLocator)
Client_queryMore(g, cl, queryLocator) ==
    Client_post(g, QueryEnvelope(cl, "queryMore", "queryLocator", queryLocator))

\* Element.__getattr__(n): the first child element named n in the default
\* namespace of the node
Element_getattr(node, n) ==
    LET r == getitem(node, <<n>>)
    IN IF r.raised = "none" THEN r ELSE [r EXCEPT !.raised = "AttributeError"]

\* the head of the for loop: the records of the handle, none of them taken yet
for_records(g) ==
    [g EXCEPT !.list = getslice(g.handle, <<_partnerNs, "records">>), !.pos = 0]

RECURSIVE gatherRecords(_, _)
\* IterClient.gatherRecords(queryHandle) from the head of the for loop to the
\* next yield, to the break or to an exception
gatherRecords(g, cl) ==
    IF g.status # "suspended" THEN g
    ELSE IF g.pos < Len(g.list)
    THEN [g EXCEPT !.pos = @ + 1, !.yielded = Append(@, g.list[g.pos + 1])]
    ELSE LET done == getitem(g.handle, <<_partnerNs, "done">>)
             queryLocator == Element_getattr(g.handle, "queryLocator")
         IN IF done.raised # "none" THEN [g EXCEPT !.status = "raised", !.raised = done.raised]
            ELSE IF Element_str(done.items[1]) = TrueText THEN [g EXCEPT !.status = "done"]
            ELSE IF queryLocator.raised # "none"
            THEN [g EXCEPT !.status = "raised", !.raised = queryLocator.raised]
            ELSE gatherRecords(
                     for_records(Client_queryMore(g, cl, Elem(queryLocator.items[1]))), cl)

\* next() of the generator: the first one enters the while loop
generator_next(g, cl) ==
    gatherRecords(IF g.status = "created"
                  THEN for_records([g EXCEPT !.status = "suspended"])
                  ELSE g,
                  cl)

\* the generator object of a call of gatherRecords: nothing of it has run
generator(g) == IF g.status = "raised" THEN g ELSE [g EXCEPT !.status = "created"]

\* IterClient.query(soql): the first batch is fetched and the generator made
IterClient_query(g, cl, soql) == generator(Client_query(g, cl, soql))

----------------------------------------------------------------------------
\* State machine

\* what an operation of xmltramp has given: a text written, a tree (and
\* whether the text could be parsed), a string, the children found
NoResult ==
    [out |-> <<>>, ok |-> FALSE, tree |-> NoElement, s |-> <<>>, raised |-> "none",
     items |-> <<>>]

\* xmltramp holding a document text: not yet parsed
XmlText(text) ==
    [text |-> text, ok |-> FALSE, tree |-> NoElement, op |-> "text", arg |-> <<>>,
     res |-> NoResult]

NoXml == XmlText(<<>>)
\* no query made yet: all is what the server holds, script what it has yet to
\* return
Generator(batches) ==
    [all |-> batches, script |-> batches, handle |-> NoElement, list |-> <<>>, pos |-> 0,
     yielded |-> <<>>, sent |-> <<>>, status |-> "none", raised |-> "none"]

NoGen == Generator(<<>>)

\* no envelope written yet
NoWriter == [env |-> SoapEnvelope("None", "None", NoneValue, <<>>, <<>>),
             w |-> XmlWriterInit, log |-> <<>>]

Times == { Epoch + k * Tick : k \in 0..MaxTicks }

\* the record of an operation that has just finished
Outcome(op, traffic, raised, code, message, value) ==
    [op |-> op, sends |-> traffic.sends, recv |-> traffic.recv,
     logins |-> traffic.logins, lrecv |-> traffic.lrecv,
     reauths |-> traffic.reauths, raised |-> raised, code |-> code,
     message |-> message, value |-> value, alwaysReturnList |-> FALSE,
     pre |-> [session_id |-> auth.session_id,
              worker_server_url |-> auth.worker_server_url,
              has_body |-> auth.auth_request_body # NoBody,
              login_server_url |-> auth.login_server_url],
     t |-> now, failed_at |-> hist.invalid_login_at]

\* the history after an operation: given is the login envelope an explicit
\* login was called with, lrecv the login responses read
History(op, given, lrecv, raised) ==
    [creds |->
        IF op \in {"login", "portalLogin"}
        THEN (IF raised = "none" THEN given ELSE NoBody)
        ELSE IF op \in {"useSession", "invalidate"} THEN NoBody
        ELSE hist.creds,
     invalid_login_at |->
        IF lrecv # <<>>
        THEN (IF lrecv[1].kind = "fault" /\ lrecv[1].faultcode = FC_INVALID_LOGIN
              THEN now
              ELSE IF lrecv[1].kind = "ok" THEN NoneTime
              ELSE hist.invalid_login_at)
        ELSE IF op = "useSession" THEN NoneTime
        ELSE hist.invalid_login_at,
     invalidated |->
        IF op = "invalidate" THEN TRUE
        ELSE IF op \in {"login", "portalLogin", "useSession"} THEN FALSE
        ELSE hist.invalidated]

\* the state after construction, x being what xmltramp is given
InitGen(a, x, wr, g) ==
    /\ gen = g
    /\ auth = a
    /\ conn = None
    /\ client = ClientInit
    /\ now = Epoch
    /\ last = [op |-> "init", sends |-> <<>>, recv |-> <<>>, logins |-> <<>>,
               lrecv |-> <<>>, reauths |-> 0, raised |-> "none", code |-> <<>>,
               message |-> "", value |-> NoValue, alwaysReturnList |-> FALSE,
               pre |-> [session_id |-> None, worker_server_url |-> None,
                        has_body |-> FALSE, login_server_url |-> a.login_server_url],
               t |-> now, failed_at |-> NoneTime]
    /\ hist = [creds |-> NoBody, invalid_login_at |-> NoneTime, invalidated |-> FALSE]
    /\ iters = <<>>
    /\ heap = [d \in DictIds |-> EmptyDict]
    /\ xml = x
    /\ writer = wr

InitAll(a, x, wr) == InitGen(a, x, wr, NoGen)

InitState(x, wr) == InitAll(AuthInfoInit(LoginUrl("login")), x, wr)

InitWith(x) == InitState(x, NoWriter)

Init == InitWith(NoXml)

\* time passes
TickClock ==
    /\ now + Tick \in Times
    /\ now' = now + Tick
    /\ UNCHANGED <<auth, conn, client, last, hist, iters, heap, xml, writer, gen>>

\* the caller calls auth.reauth()
Reauth ==
    \E lr \in LoginResponses :
        LET ra == reauth(auth, now, lr)
        IN /\ auth' = ra.auth
           /\ last' = Outcome("reauth",
                        [NoTraffic EXCEPT !.logins = ra.logins, !.lrecv = ra.lrecv,
                                          !.reauths = 1],
                        ra.raised, ra.code, ra.message, NoValue)
           /\ hist' = History("reauth", NoBody, ra.lrecv, ra.raised)
           /\ UNCHANGED <<conn, client, now, iters, heap, xml, writer, gen>>

\* the caller calls auth.login(username, password)
Login ==
    \E u \in Usernames, p \in Passwords, sb \in DefaultFlags, lr \in LoginResponses :
        LET ra == login(auth, u, p, sb, now, lr)
        IN /\ auth' = ra.auth
           /\ last' = Outcome("login",
                        [NoTraffic EXCEPT !.logins = ra.logins, !.lrecv = ra.lrecv],
                        ra.raised, ra.code, ra.message, NoValue)
           /\ hist' = History("login", LoginRequest(u, p), ra.lrecv, ra.raised)
           /\ UNCHANGED <<conn, client, now, iters, heap, xml, writer, gen>>

\* the caller calls auth.portalLogin(username, password, orgId, portalId)
PortalLogin ==
    \E u \in {"alice"}, p \in Passwords, sb \in DefaultFlags, lr \in LoginResponses :
        LET ra == portalLogin(auth, u, p, "org", "portal", sb, now, lr)
        IN /\ auth' = ra.auth
           /\ last' = Outcome("portalLogin",
                        [NoTraffic EXCEPT !.logins = ra.logins, !.lrecv = ra.lrecv],
                        ra.raised, ra.code, ra.message, NoValue)
           /\ hist' = History("portalLogin", PortalLoginRequest(u, p, "org", "portal"),
                              ra.lrecv, ra.raised)
           /\ UNCHANGED <<conn, client, now, iters, heap, xml, writer, gen>>

\* the caller calls auth.useSession(sessionId, serverUrl)
UseSession ==
    \E s \in Sessions :
        /\ auth' = useSession(auth, s[1], s[2])
        /\ last' = Outcome("useSession", NoTraffic, "none", <<>>, "", NoValue)
        /\ hist' = History("useSession", NoBody, <<>>, "none")
        /\ UNCHANGED <<conn, client, now, iters, heap, xml, writer, gen>>

\* the caller calls auth.invalidate()
Invalidate ==
    /\ auth' = invalidate(auth)
    /\ last' = Outcome("invalidate", NoTraffic, "none", <<>>, "", NoValue)
    /\ hist' = History("invalidate", NoBody, <<>>, "none")
    /\ UNCHANGED <<conn, client, now, iters, heap, xml, writer, gen>>

\* one dispatched call on the worker connection of a session that has a
\* worker server URL. The transport answers each
\* request as it is sent: a second response r2 and a login response lr are
\* drawn only when the call reads more than its first response r1.
Post2r ==
    /\ auth.worker_server_url # None
    /\ \E r1 \in WorkerResponses :
        LET lr0 == CHOOSE lr \in LoginResponses : TRUE
            probe == post2r(auth, conn, <<r1, r1>>, lr0, now).traffic
            more == Len(probe.recv) > 1 \/ probe.lrecv # <<>>
        IN \E r2 \in (IF more THEN WorkerResponses ELSE {r1}),
              lr \in (IF more THEN LoginResponses ELSE {lr0}) :
            LET res == post2r(auth, conn, <<r1, r2>>, lr, now)
            IN \E alwaysReturnList \in (IF res.raised = "none" THEN BOOLEAN ELSE {FALSE}) :
                /\ auth' = res.auth
                /\ conn' = res.conn
                /\ last' = [Outcome("post2r", res.traffic, res.raised, res.code,
                             res.message,
                             IF res.raised = "none"
                             THEN decode_response(res.body.children, alwaysReturnList)
                             ELSE NoValue)
                            EXCEPT !.alwaysReturnList = alwaysReturnList]
                /\ hist' = History("post2r", NoBody, res.traffic.lrecv, res.raised)
                /\ UNCHANGED <<client, now, iters, heap, xml, writer, gen>>

\* the caller calls client.login(username, password)
ClientLogin ==
    \E u \in Usernames, p \in Passwords, lr \in LoginResponses :
        LET r == SoapEnvelope_post(lr)
        IN /\ client' = Client_login(client, u, p, lr)
           /\ last' = Outcome("Client.login",
                        [NoTraffic EXCEPT
                            !.logins = <<[url |-> client.serverUrl,
                                          body |-> LoginRequest(u, p)]>>,
                            !.lrecv = <<lr>>],
                        r.raised, r.code, r.message, NoValue)
           /\ UNCHANGED <<auth, conn, now, hist, iters, heap, xml, writer, gen>>

\* the caller calls client.useSession(sessionId, serverUrl)
ClientUseSession ==
    \E sid \in SessionIds, url \in WorkerUrls :
        /\ client' = Client_useSession(client, sid, url)
        /\ last' = Outcome("Client.useSession", NoTraffic, "none", <<>>, "", NoValue)
        /\ UNCHANGED <<auth, conn, now, hist, iters, heap, xml, writer, gen>>

\* the caller sets a header block: client.headers[name] = fields
ClientSetHeader ==
    \E name \in HeaderNames, fields \in HeaderFields :
        /\ heap' = [heap EXCEPT ![client.headers] = dict_set(@, name, fields)]
        /\ last' = Outcome("Client.headers", NoTraffic, "none", <<>>, "", NoValue)
        /\ UNCHANGED <<auth, conn, client, now, hist, iters, xml, writer, gen>>

\* the caller removes a header block: del client.headers[name]
ClientDelHeader ==
    \E name \in HeaderNames :
        /\ \E i \in 1..Len(heap[client.headers]) : heap[client.headers][i][1] = name
        /\ heap' = [heap EXCEPT ![client.headers] = dict_del(@, name)]
        /\ last' = Outcome("Client.headers", NoTraffic, "none", <<>>, "", NoValue)
        /\ UNCHANGED <<auth, conn, client, now, hist, iters, xml, writer, gen>>

\* the caller calls an operation of the client that posts an authenticated
\* request (query, create, describeTabs, ...) on a client that has a session
ClientCall ==
    /\ client.sessionId # None
    /\ \E response \in ClientResponses, alwaysReturnList \in BOOLEAN :
        LET r == SoapEnvelope_post(response)
            value == IF r.raised = "none"
                     THEN decode_response(r.body.children, alwaysReturnList)
                     ELSE NoValue
        IN /\ last' = [Outcome("Client.call",
                        [NoTraffic EXCEPT
                            !.sends = <<[via |-> client.private_conn,
                                         url |-> client.private_serverUrl,
                                         envelope |->
                                             AuthenticatedRequest(client, "call")]>>,
                            !.recv = <<response>>],
                        IF value.shape = "IndexError" THEN "IndexError" ELSE r.raised,
                        r.code, r.message,
                        IF value.shape = "IndexError" THEN NoValue ELSE value)
                       EXCEPT !.alwaysReturnList = alwaysReturnList]
           /\ UNCHANGED <<auth, conn, client, now, hist, iters, heap, xml, writer, gen>>

\* the caller calls client.logout() on a client that has a session
ClientLogout ==
    /\ client.sessionId # None
    /\ \E response \in WorkerResponses :
        LET r == SoapEnvelope_post(response)
        IN /\ client' = Client_logout(client)
           /\ last' = [Outcome("Client.logout",
                        [NoTraffic EXCEPT
                            !.sends = <<[via |-> client.private_conn,
                                         url |-> client.private_serverUrl,
                                         envelope |->
                                             AuthenticatedRequest(client, "logout")]>>,
                            !.recv = <<response>>],
                        r.raised, r.code, r.message,
                        IF r.raised = "none"
                        THEN decode_response(r.body.children, TRUE) ELSE NoValue)
                       EXCEPT !.alwaysReturnList = TRUE]
           /\ UNCHANGED <<auth, conn, now, hist, iters, heap, xml, writer, gen>>

\* the caller takes client.iterclient and keeps the handle
Derive ==
    /\ Len(iters) < MaxIters
    /\ iters' = Append(iters, Client_iterclient(client))
    /\ last' = Outcome("Client.iterclient", NoTraffic, "none", <<>>, "", NoValue)
    /\ UNCHANGED <<auth, conn, client, now, hist, heap, xml, writer, gen>>

\* the caller calls login(username, password) on the derived handle
IterLogin ==
    /\ iters # <<>>
    /\ \E u \in Usernames, p \in Passwords, lr \in LoginResponses :
        LET r == SoapEnvelope_post(lr)
        IN /\ iters' = [iters EXCEPT ![1] = Client_login(@, u, p, lr)]
           /\ last' = Outcome("Iter.login",
                        [NoTraffic EXCEPT
                            !.logins = <<[url |-> iters[1].serverUrl,
                                          body |-> LoginRequest(u, p)]>>,
                            !.lrecv = <<lr>>],
                        r.raised, r.code, r.message, NoValue)
           /\ UNCHANGED <<auth, conn, client, now, hist, heap, xml, writer, gen>>

\* the caller calls useSession(sessionId, serverUrl) on the derived handle
IterUseSession ==
    /\ iters # <<>>
    /\ \E sid \in SessionIds, url \in WorkerUrls :
        /\ iters' = [iters EXCEPT ![1] = Client_useSession(@, sid, url)]
        /\ last' = Outcome("Iter.useSession", NoTraffic, "none", <<>>, "", NoValue)
        /\ UNCHANGED <<auth, conn, client, now, hist, heap, xml, writer, gen>>

\* the caller sets a header block on the derived handle: it.headers[name] = fields
IterSetHeader ==
    /\ iters # <<>>
    /\ \E name \in HeaderNames, fields \in HeaderFields :
        /\ heap' = [heap EXCEPT ![iters[1].headers] = dict_set(@, name, fields)]
        /\ last' = Outcome("Iter.headers", NoTraffic, "none", <<>>, "", NoValue)
        /\ UNCHANGED <<auth, conn, client, now, hist, iters, xml, writer, gen>>

\* the caller removes a header block on the derived handle: del it.headers[name]
IterDelHeader ==
    /\ iters # <<>>
    /\ \E name \in HeaderNames :
        /\ \E i \in 1..Len(heap[iters[1].headers]) :
                heap[iters[1].headers][i][1] = name
        /\ heap' = [heap EXCEPT ![iters[1].headers] = dict_del(@, name)]
        /\ last' = Outcome("Iter.headers", NoTraffic, "none", <<>>, "", NoValue)
        /\ UNCHANGED <<auth, conn, client, now, hist, iters, xml, writer, gen>>

\* the caller calls an operation on the derived handle, which has a session
IterCall ==
    /\ iters # <<>>
    /\ iters[1].sessionId # None
    /\ \E response \in ClientResponses, alwaysReturnList \in BOOLEAN :
        LET r == SoapEnvelope_post(response)
            value == IF r.raised = "none"
                     THEN decode_response(r.body.children, alwaysReturnList)
                     ELSE NoValue
        IN /\ last' = [Outcome("Iter.call",
                        [NoTraffic EXCEPT
                            !.sends = <<[via |-> iters[1].private_conn,
                                         url |-> iters[1].private_serverUrl,
                                         envelope |->
                                             AuthenticatedRequest(iters[1], "call")]>>,
                            !.recv = <<response>>],
                        IF value.shape = "IndexError" THEN "IndexError" ELSE r.raised,
                        r.code, r.message,
                        IF value.shape = "IndexError" THEN NoValue ELSE value)
                       EXCEPT !.alwaysReturnList = alwaysReturnList]
           /\ UNCHANGED <<auth, conn, client, now, hist, iters, heap, xml, writer, gen>>

\* The session object and its worker connection
Next ==
    \/ TickClock
    \/ Reauth
    \/ Login
    \/ PortalLogin
    \/ UseSession
    \/ Invalidate
    \/ Post2r

Spec == Init /\ [][Next]_vars

\* The old-style Client
NextClient ==
    \/ ClientLogin
    \/ ClientUseSession
    \/ ClientSetHeader
    \/ ClientDelHeader
    \/ ClientCall
    \/ ClientLogout
    \/ Derive
    \/ IterLogin
    \/ IterUseSession
    \/ IterSetHeader
    \/ IterDelHeader
    \/ IterCall

SpecClient == Init /\ [][NextClient]_vars

\* header blocks as a caller puts them into headers
MruHeader == <<"MruHeader", << <<"updateMru", Str("true")>> >> >>
EmailHeader == <<"EmailHeader", << <<"triggerUserEmail", Str("false")>>,
                                   <<"triggerOtherEmail", NoneValue>> >> >>
HeaderDicts ==
    { EmptyDict, <<MruHeader>>, <<MruHeader, EmailHeader>>, <<EmailHeader, MruHeader>> }

\* the fields that writeBody of a request class writes
Bodies ==
    { <<>>,
      << <<"queryString", Str("select")>> >>,
      << <<"id", List(<<Str("id1"), Str("id2")>>)>> >>,
      << <<"userId", NoneValue>>, <<"password", Str("pw")>> >> }

OperationNames == {"login", "query", "delete"}
EnvelopeClasses ==
    {"LoginRequest", "PortalLoginRequest", "AuthenticatedRequest", "QueryOptionsRequest"}
AuthenticatedClasses == {"AuthenticatedRequest", "QueryOptionsRequest"}

\* the batches a server returns: up to two records, done or not, with or
\* without a query locator
Batches ==
    [recs : {<<>>, << <<"1">> >>, << <<"1">>, <<"2">> >>},
     done : {TrueText, FalseText}, loc : {<<>>, <<"l">>}]

RECURSIVE BatchSeqs(_)
\* the sequences of up to n batches
BatchSeqs(n) ==
    IF n = 0 THEN { <<>> }
    ELSE BatchSeqs(n - 1) \cup { Append(bs, b) : bs \in BatchSeqs(n - 1), b \in Batches }

\* what a server holds for a query: some batches, the last of which is done
Scripts ==
    { Append(bs, b) : bs \in BatchSeqs(MaxBatches - 1),
                      b \in { x \in Batches : x.done = TrueText } }

InitIter ==
    \E b \in Scripts :
        InitGen(AuthInfoInit(LoginUrl("login")), NoXml, NoWriter, Generator(b))

\* g = client.iterclient.query(soql)
IterQuery ==
    /\ gen.status = "none"
    /\ gen' = IterClient_query(gen, Client_iterclient(client), "soql")
    /\ UNCHANGED <<auth, conn, client, now, last, hist, iters, heap, xml, writer>>

\* next(g)
IterNext ==
    /\ gen.status \in {"created", "suspended"}
    /\ gen' = generator_next(gen, Client_iterclient(client))
    /\ UNCHANGED <<auth, conn, client, now, last, hist, iters, heap, xml, writer>>

\* a query is made through the iterating client and its records are taken one
\* by one
NextIter ==
    \/ IterQuery
    \/ IterNext

SpecIter == InitIter /\ [][NextIter]_vars

\* the request envelopes written
Envelopes ==
    { [SoapEnvelope(cls, op, sid, h, b) EXCEPT !.portalId = pid] :
        cls \in EnvelopeClasses, op \in OperationNames,
        sid \in {NoneValue, Str("sid1")}, h \in HeaderDicts, b \in Bodies,
        pid \in {NoneValue, Str("portal")} }

\* a request envelope is serialized: envelope.makeEnvelope()
MakeEnvelope ==
    \E env \in Envelopes :
        /\ writer.env.cls = "None"
        /\ writer' = [env |-> env, w |-> makeEnvelope(env), log |-> <<>>]
        /\ UNCHANGED <<auth, conn, client, now, last, hist, iters, heap, xml, gen>>

RECURSIVE Concat(_)
\* the parts of a text, one after the other
Concat(parts) == IF parts = <<>> THEN <<>> ELSE Head(parts) \o Concat(Tail(parts))

\* the namespace declarations of a start tag: a default namespace d and a
\* namespace for the prefix p, either of which may be left out
DeclsOf(d, p) ==
    (IF d # None THEN << <<None, d>> >> ELSE <<>>)
    \o (IF p # None THEN << <<"p", p>> >> ELSE <<>>)

\* the attribute of a start tag: none, one without prefix, one with prefix p
AttrsOf(attr) ==
    IF attr = None THEN <<>>
    ELSE IF attr = "plain" THEN << <<None, "k", <<"v">>>> >>
    ELSE << <<"p", "k", <<"v", "\"">>>> >>

Namespaces == {"A", "B"}
Levels(attrs, pdecls) ==
    [prefix : {None, "p"}, d : {None} \cup Namespaces, p : pdecls, attr : attrs]

LevelTag(l, local) == Tag(l.prefix, local, DeclsOf(l.d, l.p), AttrsOf(l.attr))

\* the prefix p is used at a level only where it is bound
UsesP(l) == l.prefix = "p" \/ l.attr = "p"

\* nested elements a > b > c with namespace declarations at every level
ChainDocs ==
    { << LevelTag(l1, "a"), LevelTag(l2, "b"), LevelTag(l3, "c"),
         EndTag, EndTag, EndTag >> :
        <<l1, l2, l3>> \in
            { t \in Levels({None, "plain", "p"}, {None} \cup Namespaces)
                     \X Levels({None}, {None} \cup Namespaces)
                     \X Levels({None}, {None}) :
                /\ UsesP(t[1]) => t[1].p # None
                /\ UsesP(t[2]) => (t[1].p # None \/ t[2].p # None)
                /\ UsesP(t[3]) => (t[1].p # None \/ t[2].p # None) } }

\* what stands between the tags of the root of a flat document
Items ==
    { << Text(<<"x">>) >>,
      << Text(<<" ">>) >>,
      << Text(<<"&", "lt", ";", "x">>) >>,
      << Tag(None, "b", <<>>, <<>>), EndTag >>,
      << Tag(None, "b", <<>>, <<>>), Text(<<" ", "y", "\n", "y", " ">>), EndTag >>,
      << Tag("p", "b", <<>>, <<>>), Text(<<"z">>), EndTag >>,
      << Tag(None, "c", <<>>, <<>>), EndTag >> }

\* a root element, with or without a default namespace, and its children
FlatDocs ==
    { << Tag(None, "a", DeclsOf(d, "B"), <<>>) >> \o Concat(items) \o << EndTag >> :
        d \in {None, "A"},
        items \in UNION { [1..n -> Items] : n \in 0..MaxChildren } }

Docs == ChainDocs \cup FlatDocs

\* the names a caller looks up: plain strings and (namespace, local) pairs
LookupNames == { <<"b">>, <<"c">>, <<"A", "b">>, <<"B", "b">> }

InitXml == \E text \in Docs : InitWith(XmlText(text))

\* parse(text)
Parse ==
    /\ xml.op = "text"
    /\ LET r == parse(xml.text)
       IN xml' = [xml EXCEPT !.ok = r.ok, !.tree = r.tree, !.op = "parse"]
    /\ UNCHANGED <<auth, conn, client, now, last, hist, iters, heap, writer, gen>>

\* tree.__repr__(1), and the text it gives parsed again
Repr ==
    /\ xml.op = "parse" /\ xml.ok
    /\ LET out == repr(xml.tree, 1, <<>>)
           r == parse(out)
       IN xml' = [xml EXCEPT !.op = "repr", !.arg = <<>>,
                             !.res = [NoResult EXCEPT !.out = out, !.ok = r.ok,
                                                      !.tree = r.tree]]
    /\ UNCHANGED <<auth, conn, client, now, last, hist, iters, heap, writer, gen>>

\* str(tree)
StrOf ==
    /\ xml.op = "parse" /\ xml.ok
    /\ xml' = [xml EXCEPT !.op = "str", !.arg = <<>>,
                          !.res = [NoResult EXCEPT !.s = Element_str(xml.tree)]]
    /\ UNCHANGED <<auth, conn, client, now, last, hist, iters, heap, writer, gen>>

\* tree[n]
GetItem ==
    /\ xml.op = "parse" /\ xml.ok
    /\ \E n \in LookupNames :
        LET r == getitem(xml.tree, n)
        IN xml' = [xml EXCEPT !.op = "getitem", !.arg = n,
                              !.res = [NoResult EXCEPT !.raised = r.raised,
                                                       !.items = r.items]]
    /\ UNCHANGED <<auth, conn, client, now, last, hist, iters, heap, writer, gen>>

\* tree[n:]
GetSlice ==
    /\ xml.op = "parse" /\ xml.ok
    /\ \E n \in LookupNames :
        xml' = [xml EXCEPT !.op = "getslice", !.arg = n,
                           !.res = [NoResult EXCEPT !.items = getslice(xml.tree, n)]]
    /\ UNCHANGED <<auth, conn, client, now, last, hist, iters, heap, writer, gen>>

\* the values a caller assigns
AssignedValues == { <<"v">>, <<>> }

\* tree[n] = v
SetItem ==
    /\ xml.op = "parse" /\ xml.ok
    /\ \E n \in LookupNames, v \in AssignedValues :
        LET r == setitem(xml.tree, n, v)
        IN xml' = [xml EXCEPT !.op = "setitem", !.arg = n,
                              !.res = [NoResult EXCEPT !.raised = r.raised,
                                                       !.tree = r.tree, !.s = v]]
    /\ UNCHANGED <<auth, conn, client, now, last, hist, iters, heap, writer, gen>>

\* tree[n:] = v
SetSlice ==
    /\ xml.op = "parse" /\ xml.ok
    /\ \E n \in LookupNames, v \in AssignedValues :
        LET r == setslice(xml.tree, n, v)
        IN xml' = [xml EXCEPT !.op = "setslice", !.arg = n,
                              !.res = [NoResult EXCEPT !.raised = r.raised,
                                                       !.tree = r.tree, !.s = v]]
    /\ UNCHANGED <<auth, conn, client, now, last, hist, iters, heap, writer, gen>>

\* xmltramp on a document: the text is parsed, and one operation is applied
\* to the tree; xml.tree keeps the tree as parsed, and an assignment leaves the
\* tree it made in xml.res.tree
NextXml ==
    \/ Parse
    \/ Repr
    \/ StrOf
    \/ GetItem
    \/ GetSlice
    \/ SetItem
    \/ SetSlice

SpecXml == InitXml /\ [][NextXml]_vars

\* the characters of the strings given to quote
QuoteChars == {"<", "&", ">", "]", "\r", Pad}
QuoteStrings == UNION { [1..n -> QuoteChars] : n \in 0..MaxQuoteLen }

InitQuote == \E x \in QuoteStrings : InitWith(XmlText(x))

\* quote(x) for the text of an element
Quote ==
    /\ xml.op = "text"
    /\ xml' = [xml EXCEPT !.op = "quote",
                          !.res = [NoResult EXCEPT !.out = quote(xml.text, TRUE)]]
    /\ UNCHANGED <<auth, conn, client, now, last, hist, iters, heap, writer, gen>>

\* the parser reads what quote has written as the text of an element
ReadQuoted ==
    /\ xml.op = "quote"
    /\ LET r == Decode(xml.res.out, 1, <<>>)
       IN xml' = [xml EXCEPT !.op = "read", !.res.ok = r.ok, !.res.s = r.s]
    /\ UNCHANGED <<auth, conn, client, now, last, hist, iters, heap, writer, gen>>

\* quote and the parser on a string
NextQuote ==
    \/ Quote
    \/ ReadQuoted

SpecQuote == InitQuote /\ [][NextQuote]_vars

\* a call of the writer: the operation and its arguments, the caller's
\* mapping before (pre) and after (post) it, the element stack before
\* (elems) and after it (elems2), and the part of the output it has written
\* (from + 1 .. to)
Call(op, namespace, name, value, attrs, w, w2) ==
    [op |-> op, ns |-> namespace, name |-> name, value |-> value, attrs |-> attrs,
     pre |-> w.dicts[attrs], post |-> w2.dicts[attrs], elems |-> w.elems,
     elems2 |-> w2.elems, from |-> Len(w.out), to |-> Len(w2.out),
     raised |-> w2.raised]

\* the mapping a caller passes as attrs: empty or {(None, 'k'): 'v'}
CallerAttrs == {EmptyDict, << <<<<None, "k">>, "v">> >>}

\* the values written: strings, an int, None and lists of these
WrittenValues ==
    {Str("a"), IntValue(7), NoneValue, List(<<>>), List(<<Str("a"), IntValue(7)>>),
     List(<<NoneValue, Str("a")>>), List(<<Str("a"), NoneValue>>)}

\* a SoapWriter after __init__, or with the element of an operation open too
InitElems ==
    \E a \in CallerAttrs :
        \E w \in {SoapWriterInit, startElement(SoapWriterInit, _partnerNs, "create", _noAttrs)} :
            InitState(NoXml, [NoWriter EXCEPT !.w = [w EXCEPT !.dicts["attrs"] = a]])

\* s.writeStringElement(_sobjectNs, "f", value, attrs), attrs being left out
\* or the caller's mapping
WriteStringElement ==
    \E value \in WrittenValues, attrs \in {"_noAttrs", "attrs"} :
        /\ writer.w.raised = "none"
        /\ Len(writer.log) < MaxWrites
        /\ LET w2 == writeStringElement(writer.w, _sobjectNs, "f", value, attrs)
           IN writer' = [writer EXCEPT
                  !.w = w2,
                  !.log = Append(@, Call("write", _sobjectNs, "f", value, attrs,
                                         writer.w, w2))]
        /\ UNCHANGED <<auth, conn, client, now, last, hist, iters, heap, xml, gen>>

\* SoapWriter.writeStringElement called several times
NextElems ==
    \/ WriteStringElement

SpecElems == InitElems /\ [][NextElems]_vars

\* an XmlWriter after __init__; the caller's mapping is {('A', 'k'): 'v'}
InitPrefix ==
    InitState(NoXml, [NoWriter EXCEPT
        !.w.dicts["attrs"] = << <<<<"A", "k">>, "v">> >>])

\* w.startPrefixMapping(prefix, namespace)
StartPrefixMapping ==
    \E prefix \in {"p", "q"}, namespace \in {"A", "B"} :
        /\ writer.w.raised = "none"
        /\ Len(writer.log) < MaxCalls
        /\ LET w2 == startPrefixMapping(writer.w, prefix, namespace)
           IN writer' = [writer EXCEPT
                  !.w = w2,
                  !.log = Append(@, Call("startPrefixMapping", namespace, prefix,
                                         NoneValue, _noAttrs, writer.w, w2))]
        /\ UNCHANGED <<auth, conn, client, now, last, hist, iters, heap, xml, gen>>

\* w.startElement(namespace, "e", attrs)
StartElement ==
    \E namespace \in {None, "A", "B"}, attrs \in {"_noAttrs", "attrs"} :
        /\ writer.w.raised = "none"
        /\ Len(writer.log) < MaxCalls
        /\ LET w2 == startElement(writer.w, namespace, "e", attrs)
           IN writer' = [writer EXCEPT
                  !.w = w2,
                  !.log = Append(@, Call("startElement", namespace, "e", NoneValue,
                                         attrs, writer.w, w2))]
        /\ UNCHANGED <<auth, conn, client, now, last, hist, iters, heap, xml, gen>>

\* w.endElement()
EndElement ==
    /\ writer.w.raised = "none"
    /\ Len(writer.log) < MaxCalls
    /\ LET w2 == endElement(writer.w)
       IN writer' = [writer EXCEPT
              !.w = w2,
              !.log = Append(@, Call("endElement", None, "", NoneValue, _noAttrs,
                                     writer.w, w2))]
    /\ UNCHANGED <<auth, conn, client, now, last, hist, iters, heap, xml, gen>>

\* an XmlWriter given prefix mappings and elements
NextPrefix ==
    \/ StartPrefixMapping
    \/ StartElement
    \/ EndElement

SpecPrefix == InitPrefix /\ [][NextPrefix]_vars

\* the hosts of the login URL a caller configures: the two login servers
\* and a domain of its own
LoginHosts == {"login", "test", "my"}

InitLogin == \E host \in LoginHosts : InitAll(AuthInfoInit(LoginUrl(host)), NoXml, NoWriter)

\* the caller calls auth.login(username, password, is_sandbox)
LoginSandbox ==
    \E p \in Passwords, sb \in SandboxFlags, lr \in LoginResponses :
        LET ra == login(auth, "alice", p, sb, now, lr)
        IN /\ auth' = ra.auth
           /\ last' = Outcome("login",
                        [NoTraffic EXCEPT !.logins = ra.logins, !.lrecv = ra.lrecv],
                        ra.raised, ra.code, ra.message, NoValue)
           /\ hist' = History("login", LoginRequest("alice", p), ra.lrecv, ra.raised)
           /\ UNCHANGED <<conn, client, now, iters, heap, xml, writer, gen>>

\* logins with the sandbox flag given, and reauth
NextLogin ==
    \/ LoginSandbox
    \/ Reauth

SpecLogin == InitLogin /\ [][NextLogin]_vars

\* The envelope writer
NextWriter ==
    \/ MakeEnvelope

SpecWriter == Init /\ [][NextWriter]_vars

----------------------------------------------------------------------------
\* Properties

InvalidSessionFault == Fault(FC_INVALID_SESSION, "Session expired")
InvalidLoginFault == Fault(FC_INVALID_LOGIN, "Invalid username or password")

\* the fault kinds by the stripped fault code, as the fault table is documented
KindOf(code) ==
    IF code = <<"INVALID_SESSION_ID">> THEN "SoapInvalidSession"
    ELSE IF code = <<"INVALID_LOGIN">> THEN "SoapInvalidLogin"
    ELSE "SoapFaultError"

LoginOps == {"login", "portalLogin", "reauth"}

\* every response read after the first is fault-free, and so is the login response
ThenAllGood ==
    /\ \A i \in 2..Len(last.recv) : last.recv[i].kind = "ok"
    /\ \A i \in 1..Len(last.lrecv) : last.lrecv[i].kind = "ok"

\* C1: a dispatched call on a session with stored credentials whose first
\* request is answered with an InvalidSession fault and whose second request
\* is answered normally calls reauth exactly once, sends exactly two requests
\* and returns the decoded second response.
C1_RetryOnceAfterInvalidSession ==
    ( /\ last.op = "post2r"
      /\ last.pre.has_body
      /\ last.recv[1] = InvalidSessionFault
      /\ ThenAllGood )
    => /\ last.reauths = 1
       /\ Len(last.sends) = 2
       /\ Len(last.recv) = 2
       /\ last.raised = "none"
       /\ \E b \in BOOLEAN : last.value = decode_response(last.recv[2].children, b)

C3_ReauthReissuesCredentials ==
    /\ (last.op \in {"login", "portalLogin"} /\ last.raised = "none")
        => auth.auth_request_body = hist.creds
    /\ (last.op = "reauth" /\ hist.creds # NoBody)
        => /\ Len(last.logins) = 1
           /\ last.logins[1].body = hist.creds

\* C4: a login or reauth attempted less than safe_login_retry_delay seconds
\* after a login request was answered with an INVALID_LOGIN fault fails with
\* an InvalidLogin error and sends nothing.
C4_BackoffGuard ==
    ( /\ last.op \in LoginOps
      /\ last.failed_at # NoneTime
      /\ last.t - last.failed_at < safe_login_retry_delay )
    => /\ last.logins = <<>>
       /\ last.raised = "SoapInvalidLogin"

C6_InvalidLoginRecorded ==
    ( /\ last.op \in LoginOps
      /\ last.lrecv = <<InvalidLoginFault>> )
    => /\ auth.failed_timestamp = last.t
       /\ last.raised = "SoapInvalidLogin"
       /\ Len(last.logins) = 1
       /\ auth.session_id = last.pre.session_id
       /\ auth.worker_server_url = last.pre.worker_server_url

\* C7: when a request of a dispatched call is answered with an INVALID_LOGIN
\* fault, that request is the last one sent, no reauth follows it, and the
\* fault is raised with its code and message.
C7_InvalidLoginNotRetried ==
    last.op = "post2r" =>
        \A i \in 1..Len(last.recv) :
            last.recv[i] = InvalidLoginFault
            => /\ Len(last.sends) = i
               /\ last.reauths = i - 1
               /\ last.logins = <<>>
               /\ last.raised \in {"SoapFaultError", "SoapInvalidLogin"}
               /\ last.code = <<"INVALID_LOGIN">>
               /\ last.message = InvalidLoginFault.faultstring

\* a dispatched call whose request was answered with an INVALID_LOGIN fault
\* on a session that has stored credentials
C7_Witness ==
    /\ last.op = "post2r"
    /\ last.pre.has_body
    /\ last.recv = <<InvalidLoginFault>>
    /\ last.raised # "none"

\* C8: when logout has returned or raised, the client's session id is absent.
C8_LogoutInvalidates ==
    last.op = "Client.logout" => client.sessionId = None

\* C9: after invalidate, and until an explicit login, portalLogin or
\* useSession, the session id stays absent, no login request is sent by any
\* reauth or dispatched call, and every reauth fails.
C9_InvalidationNotReversible ==
    hist.invalidated =>
        /\ auth.session_id = None
        /\ last.logins = <<>>
        /\ last.op = "reauth" => last.raised = "RuntimeError"

\* a reauth attempted after invalidate on a session that had stored credentials
C9_Witness ==
    /\ hist.invalidated
    /\ last.op = "reauth"
    /\ last.raised = "RuntimeError"

\* C10: a dispatched call whose response holds a Fault fails with the
\* faultstring as message, the faultcode without its namespace prefix as
\* code, and the kind the fault table gives for that stripped code.
C10_FaultDecoding ==
    ( /\ last.op = "post2r"
      /\ last.recv[Len(last.recv)].kind = "fault"
      /\ last.reauths = 0 )
    => LET f == last.recv[Len(last.recv)]
       IN /\ last.raised # "none"
          /\ last.message = f.faultstring
          /\ last.code = SplitLast(f.faultcode)
          /\ last.raised = KindOf(SplitLast(f.faultcode))
          /\ f = InvalidSessionFault
             => /\ last.raised = "SoapInvalidSession"
                /\ last.code = <<"INVALID_SESSION_ID">>
                /\ last.message = "Session expired"

\* the requests of handle calls
HandleCalls == {"Client.call", "Iter.call"}

C12_DerivedSharesSession ==
    iters # <<>> =>
        /\ iters[1].sessionId = client.sessionId
        /\ iters[1].private_serverUrl = client.private_serverUrl

\* C13: setting or removing a header block through the derived handle leaves
\* the header blocks of the client as they were, and the other way round.
C13_HeadersIndependent ==
    [][ /\ (IterSetHeader \/ IterDelHeader)
            => heap'[client.headers] = heap[client.headers]
        /\ ((ClientSetHeader \/ ClientDelHeader) /\ iters # <<>>)
            => heap'[iters[1].headers] = heap[iters[1].headers] ]_vars

\* C19: a dispatched call whose request or response read fails with a network
\* error raises that error, sends no further request, does no reauth and no
\* login, and leaves the connection without its connection object, so that
\* the next call opens a new one before it sends.
C19_TransportErrorDiscardsConnection ==
    ( /\ last.op = "post2r"
      /\ last.recv[Len(last.recv)] = NetworkError )
    => /\ last.raised = NetworkError.faultstring
       /\ Len(last.sends) = Len(last.recv)
       /\ last.reauths = 0
       /\ last.logins = <<>>
       /\ conn = None

\* the nesting depth at which event i of a document stands
Depth(out, i) ==
    Cardinality({ j \in 1..(i - 1) : out[j].e = "start" })
    - Cardinality({ j \in 1..(i - 1) : out[j].e = "end" })

RECURSIVE WellNested(_, _, _)
\* from event i on, every end tag ends the element opened last and still
\* open (open is the stack of those), and none is left open
WellNested(out, i, open) ==
    IF i > Len(out) THEN open = <<>>
    ELSE IF out[i].e = "start"
    THEN WellNested(out, i + 1, Append(open, <<out[i].ns, out[i].name>>))
    ELSE IF out[i].e = "end"
    THEN /\ open # <<>>
         /\ open[Len(open)] = <<out[i].ns, out[i].name>>
         /\ WellNested(out, i + 1, SubSeq(open, 1, Len(open) - 1))
    ELSE WellNested(out, i + 1, open)

\* the end tag of the element started by event i of a well-nested document
EndOf(out, i) ==
    CHOOSE j \in (i + 1)..Len(out) :
        /\ out[j].e = "end"
        /\ Depth(out, j) = Depth(out, i) + 1
        /\ \A k \in (i + 1)..(j - 1) :
               ~(out[k].e = "end" /\ Depth(out, k) = Depth(out, i) + 1)

\* the start tags of the child elements of the element started by event i
ChildIdx(out, i) ==
    SelectSeq([j \in 1..Len(out) |-> j],
              LAMBDA j : /\ j > i
                         /\ j < EndOf(out, i)
                         /\ out[j].e = "start"
                         /\ Depth(out, j) = Depth(out, i) + 1)

\* the qualified names of the child elements of the element started by event i
ChildNames(out, i) ==
    LET idx == ChildIdx(out, i)
    IN [k \in 1..Len(idx) |-> <<out[idx[k]].ns, out[idx[k]].name>>]

\* C20: a finished envelope is one Envelope element holding one Header and
\* then one Body; the Header starts with CallOptions/client, then for an
\* authenticated request SessionHeader/sessionId, then the caller's header
\* blocks in their order; the Body holds one element, named after the
\* operation; every end tag ends the element opened last, and the writer's
\* element stack is empty.
C20_EnvelopeShape ==
    writer.env.cls # "None" =>
        LET out == writer.w.out
            env == writer.env
        IN /\ writer.w.raised = "none"
           /\ writer.w.elems = <<>>
           /\ WellNested(out, 1, <<>>)
           /\ { j \in 1..Len(out) : out[j].e = "start" /\ Depth(out, j) = 0 } = {1}
           /\ <<out[1].ns, out[1].name>> = <<_envNs, "Envelope">>
           /\ ChildNames(out, 1) = << <<_envNs, "Header">>, <<_envNs, "Body">> >>
           /\ LET header == ChildIdx(out, 1)[1]
                  body == ChildIdx(out, 1)[2]
                  blocks == ChildNames(out, header)
                  first == ChildIdx(out, header)[1]
              IN /\ blocks[1] = <<_partnerNs, "CallOptions">>
                 /\ ChildNames(out, first) = << <<_partnerNs, "client">> >>
                 /\ env.cls \in AuthenticatedClasses =>
                        /\ blocks[2] = <<_partnerNs, "SessionHeader">>
                        /\ ChildNames(out, ChildIdx(out, header)[2])
                               = << <<_partnerNs, "sessionId">> >>
                        /\ SubSeq(blocks, 3, 2 + Len(env.headers))
                               = [k \in 1..Len(env.headers) |->
                                     <<_partnerNs, env.headers[k][1]>>]
                 /\ env.cls \notin AuthenticatedClasses =>
                        \A k \in 1..Len(blocks) : blocks[k][2] # "SessionHeader"
                 /\ ChildNames(out, body) = << <<_partnerNs, env.operationName>> >>

\* the envelope of an authenticated request with two header blocks and a
\* body field has been written
C20_Witness ==
    /\ writer.env.cls = "AuthenticatedRequest"
    /\ Len(writer.env.headers) = 2
    /\ writer.env.body # <<>>
    /\ writer.w.elems = <<>>
    /\ Len(writer.w.out) > 10

\* a document of nested elements: three start tags, three end tags
IsChain(text) ==
    /\ Len(text) = 6
    /\ \A i \in 1..3 : text[i].k = "start"

\* the element of the tree that the i-th start tag of a chain opens
ChainNode(tree, i) ==
    IF i = 1 THEN tree ELSE IF i = 2 THEN tree.dir[1] ELSE tree.dir[1].dir[1]

\* the default namespace declared nearest at or above the i-th tag of a chain
DefaultInScope(text, i) ==
    LET declaring == { j \in 1..i : \E k \in 1..Len(text[j].decls) :
                                       text[j].decls[k][1] = None }
    IN IF declaring = {} THEN None
       ELSE LET j == CHOOSE j \in declaring : \A m \in declaring : m <= j
            IN text[j].decls[CHOOSE k \in 1..Len(text[j].decls) :
                                text[j].decls[k][1] = None][2]

\* C14: in a parsed tree an element without prefix beneath a default
\* namespace declaration has the name (uri, local), and an attribute without
\* prefix is stored under its local name alone, whatever default namespace
\* is in scope.
C14_DefaultNamespaceNotForAttributes ==
    (xml.op = "parse" /\ xml.ok /\ IsChain(xml.text)) =>
        \A i \in 1..3 :
            LET tok == xml.text[i]
                node == ChainNode(xml.tree, i)
                dflt == DefaultInScope(xml.text, i)
            IN /\ (tok.prefix = None /\ dflt # None) => node.name = <<dflt, tok.local>>
               /\ (tok.prefix = None /\ dflt = None) => node.name = <<tok.local>>
               /\ \A j \in 1..Len(tok.attrs) :
                      tok.attrs[j][1] = None
                      => node.attrs[j][1] = <<tok.attrs[j][2]>>

\* a document whose root has a default namespace and an attribute without
\* prefix has been parsed
C14_Witness ==
    /\ xml.op = "parse" /\ xml.ok /\ IsChain(xml.text)
    /\ xml.text[1].prefix = None
    /\ DefaultInScope(xml.text, 1) = "A"
    /\ xml.text[1].attrs # <<>> /\ xml.text[1].attrs[1][1] = None
    /\ xml.tree.name = <<"A", "a">>
    /\ xml.tree.attrs[1][1] = <<"k">>

RECURSIVE Structure(_)
\* the structure of a tree: names, attributes and children in order, without
\* the prefixes
Structure(node) ==
    [kind |-> node.kind, name |-> node.name, s |-> node.s,
     attrs |-> { node.attrs[i] : i \in 1..Len(node.attrs) },
     dir |-> [i \in 1..Len(node.dir) |-> Structure(node.dir[i])]]

\* C15: the text that __repr__(1) writes for a parsed tree can be parsed, and
\* gives a tree of the same structure: the same names, attributes and
\* children in the same order at every node.
C15_ReprRoundTrip ==
    xml.op = "repr" =>
        /\ xml.res.ok
        /\ Structure(xml.res.tree) = Structure(xml.tree)

\* every "&" and "<" replaced by its entity, and the ">" of every "]]>" too
Escaped(x) ==
    Concat([i \in 1..Len(x) |->
              IF x[i] = "&" THEN <<"&", "amp", ";">>
              ELSE IF x[i] = "<" THEN <<"&", "lt", ";">>
              ELSE IF x[i] = ">" /\ i >= 3 /\ x[i - 1] = "]" /\ x[i - 2] = "]"
              THEN <<"&", "gt", ";">>
              ELSE <<x[i]>>])

\* C16: quote(x) is a CDATA section around x exactly when x contains "<", is
\* longer than 24 characters and does not contain "]]>"; otherwise it is x
\* with "&", "<" and "]]>" escaped; read as the text of an element it gives x.
C16_QuoteRoundTrip ==
    xml.op \in {"quote", "read"} =>
        LET x == xml.text
            cdata == /\ \E i \in 1..Len(x) : x[i] = "<"
                     /\ StrLen(x) > 24
                     /\ ~\E i \in 1..Len(x) : StartsWith(x, i, <<"]", "]", ">">>)
        IN /\ cdata => xml.res.out = <<CDataOpen>> \o x \o <<"]", "]", ">">>
           /\ ~cdata => xml.res.out = Escaped(x)
           /\ xml.op = "read" => (xml.res.ok /\ xml.res.s = x)

\* the name a lookup on the root of the document means: a plain string is a
\* name in the default namespace that the root declares
Sought(text, n) ==
    IF Len(n) = 1 /\ DefaultInScope(text, 1) # None
    THEN <<DefaultInScope(text, 1), n[1]>>
    ELSE n

\* the child elements of a node that have the name q, in document order
Named(node, q) ==
    SelectSeq(node.dir, LAMBDA x : x.kind = "elem" /\ x.name = q)

\* C17: node[n] is the first child element named n and fails with KeyError
\* when there is none; node[n:] is the sequence of all child elements named
\* n in document order, empty when there is none; a text child is never
\* returned.
C17_ChildLookup ==
    LET q == Sought(xml.text, xml.arg)
        named == Named(xml.tree, q)
    IN /\ xml.op = "getitem" =>
            /\ named = <<>> => xml.res.raised = "KeyError"
            /\ named # <<>> => (xml.res.raised = "none" /\ xml.res.items = <<named[1]>>)
       /\ xml.op = "getslice" => xml.res.items = named
       /\ xml.op \in {"getitem", "getslice"} =>
            \A i \in 1..Len(xml.res.items) : xml.res.items[i].kind = "elem"

\* a lookup has returned the first of two children of the name, which
\* stands after a text child
C17_Witness ==
    /\ xml.op = "getitem"
    /\ xml.res.raised = "none"
    /\ Len(Named(xml.tree, Sought(xml.text, xml.arg))) >= 2
    /\ xml.tree.dir[1].kind = "text"
    /\ xml.res.items[1] # xml.tree.dir[Len(xml.tree.dir)]

RECURSIVE AllText(_)
\* the text fragments of all descendants of a node in document order, joined
AllText(node) ==
    IF node.kind = "text" THEN node.s
    ELSE Concat([i \in 1..Len(node.dir) |-> AllText(node.dir[i])])

\* C18: str(node) is the text of all descendants of the node joined in
\* document order, with every run of whitespace collapsed to one space and
\* the whitespace at both ends removed.
C18_TextOfNode ==
    xml.op = "str" =>
        xml.res.s = JoinSplit(AllText(xml.tree), FALSE, FALSE)

\* the items of a value: those of a list, or the value itself
ItemsOf(value) == IF value.t = "list" THEN value.v ELSE <<value>>

\* the start tags that a call has written
StartsOf(out, c) ==
    SelectSeq([j \in 1..Len(out) |-> j],
              LAMBDA j : j > c.from /\ j <= c.to /\ out[j].e = "start")

\* the entries of a mapping
AttrSet(d) == { d[i] : i \in 1..Len(d) }

XsiNil == << <<xsiNs, "nil">>, "true" >>

\* the text form of a string or a number
TextForm(v) == IF v.t = "int" THEN ToString(v.v) ELSE v.v

\* C21: writeStringElement of the SOAP writer with the value None writes
\* exactly one element of the given name, without content, whose attributes
\* are those of the caller and xsi:nil="true".
C21_NoneIsNilElement ==
    \A k \in 1..Len(writer.log) :
        LET c == writer.log[k]
            out == writer.w.out
        IN (c.op = "write" /\ c.value.t = "none") =>
               /\ c.raised = "none"
               /\ c.to = c.from + 2
               /\ out[c.from + 1].e = "start"
               /\ <<out[c.from + 1].ns, out[c.from + 1].name>> = <<c.ns, c.name>>
               /\ AttrSet(out[c.from + 1].attrs) = AttrSet(c.pre) \cup {XsiNil}
               /\ out[c.from + 1].aq
                      = [i \in 1..Len(out[c.from + 1].attrs) |->
                            IF out[c.from + 1].attrs[i] = XsiNil THEN "x" ELSE None]
               /\ out[c.from + 2].e = "end"

\* None has been written with the caller's attribute k="v", and with no
\* attributes of the caller
C21_Witness ==
    /\ \E k \in 1..Len(writer.log) :
           /\ writer.log[k].op = "write" /\ writer.log[k].value.t = "none"
           /\ writer.log[k].pre = << <<<<None, "k">>, "v">> >>
           /\ Len(writer.w.out[writer.log[k].from + 1].attrs) = 2
    /\ \E k \in 1..Len(writer.log) :
           /\ writer.log[k].op = "write" /\ writer.log[k].value.t = "none"
           /\ writer.log[k].pre = EmptyDict
           /\ writer.w.out[writer.log[k].from + 1].attrs = <<XsiNil>>

C30_NilMarkerNotLeaked ==
    \A k \in 1..Len(writer.log) :
        LET c == writer.log[k]
            out == writer.w.out
            items == ItemsOf(c.value)
            starts == StartsOf(out, c)
        IN c.op = "write" =>
               /\ c.post = c.pre
               /\ \A i \in 1..Len(starts) :
                      (XsiNil \in AttrSet(out[starts[i]].attrs)) <=> (items[i].t = "none")

\* the elements open when event i is written
Enclosing(out, i) ==
    { j \in 1..(i - 1) :
        /\ out[j].e = "start"
        /\ \A m \in (j + 1)..i : Depth(out, m) >= Depth(out, j) + 1 }

\* the prefixes in the names of a start tag
PrefixesOf(ev) == ({ev.q} \cup { ev.aq[i] : i \in 1..Len(ev.aq) }) \ {None}

\* the number of xmlns declarations written up to event n
RECURSIVE Declared(_, _)
Declared(out, n) ==
    IF n = 0 THEN 0 ELSE Len(out[n].decls) + Declared(out, n - 1)

\* C26: every prefix mapping given to startPrefixMapping is declared once, on
\* the first element started after it, and every prefix in the name of an
\* element or of an attribute is declared on that element or on one that
\* encloses it.
C26_LazyPrefixDeclaration ==
    LET out == writer.w.out
        log == writer.log
        mappings == { k \in 1..Len(log) : log[k].op = "startPrefixMapping" }
    IN /\ Declared(out, Len(out)) + Len(writer.w.undeclared) = Cardinality(mappings)
       /\ \A k \in mappings :
              \A m \in (k + 1)..Len(log) :
                  (/\ log[m].op = "startElement" /\ log[m].to > log[m].from
                   /\ \A n \in (k + 1)..(m - 1) :
                          ~(log[n].op = "startElement" /\ log[n].to > log[n].from))
                  => \E d \in 1..Len(out[log[m].to].decls) :
                         out[log[m].to].decls[d] = <<log[k].name, log[k].ns>>
       /\ \A i \in 1..Len(out) :
              out[i].e = "start" =>
                  \A prefix \in PrefixesOf(out[i]) :
                      \E j \in Enclosing(out, i) \cup {i} :
                          \E d \in 1..Len(out[j].decls) : out[j].decls[d][1] = prefix

\* C24: a dispatched call on a session installed with useSession (no stored
\* credentials) whose request is answered with an InvalidSession fault raises
\* that InvalidSession fault, sends no login request and does not send the
\* request again.
C24_NoReauthWithoutCredentials ==
    ( /\ last.op = "post2r"
      /\ ~last.pre.has_body
      /\ last.pre.session_id # None
      /\ last.recv[1] = InvalidSessionFault )
    => /\ last.raised = "SoapInvalidSession"
       /\ last.code = <<"INVALID_SESSION_ID">>
       /\ last.message = InvalidSessionFault.faultstring
       /\ last.logins = <<>>
       /\ Len(last.sends) = 1

C29_ConnectionMatchesEndpoint ==
    last.op = "post2r" =>
        \A i \in 1..Len(last.sends) : last.sends[i].via = last.sends[i].url

\* the host of a URL
HostOf(url) == url[2]

PlacesOf(node, q) ==
    { i \in 1..Len(node.dir) : node.dir[i].kind = "elem" /\ node.dir[i].name = q }

\* the children of a node that are not elements named q, in document order
OthersOf(node, q) ==
    SelectSeq(node.dir, LAMBDA x : ~(x.kind = "elem" /\ x.name = q))

\* C27: after node[name] = v the node has exactly one child element named
\* name, which holds v as its only content and stands where the first match
\* stood (at the end when there was none), and the other children keep their
\* order; after node[name:] = v there is one more child named name than before
\* and the children there were are unchanged; neither assignment fails, also
\* on a node that has text children.
C27_ElementAssignment ==
    LET q == Sought(xml.text, xml.arg)
        old == xml.tree
        new == xml.res.tree
    IN /\ xml.op = "setitem" =>
            /\ xml.res.raised = "none"
            /\ Cardinality(PlacesOf(new, q)) = 1
            /\ \A i \in PlacesOf(new, q) :
                /\ new.dir[i].dir = << TextNode(xml.res.s) >>
                /\ IF PlacesOf(old, q) = {} THEN i = Len(new.dir)
                   ELSE \A j \in PlacesOf(old, q) : i <= j
            /\ OthersOf(new, q) = OthersOf(old, q)
       /\ xml.op = "setslice" =>
            /\ xml.res.raised = "none"
            /\ Cardinality(PlacesOf(new, q)) = Cardinality(PlacesOf(old, q)) + 1
            /\ Len(new.dir) = Len(old.dir) + 1
            /\ SubSeq(new.dir, 1, Len(old.dir)) = old.dir

\* the same for the nodes that have no text child
C27_WithoutTextChildren ==
    (\A i \in 1..Len(xml.tree.dir) : xml.tree.dir[i].kind = "elem")
        => C27_ElementAssignment

RECURSIVE RecordsOf(_)
\* the records of some batches, batch after batch, in document order
RecordsOf(batches) ==
    IF batches = <<>> THEN <<>> ELSE Head(batches).recs \o RecordsOf(Tail(batches))

\* the first batch of the server that is done
FirstDone(batches) ==
    CHOOSE k \in 1..Len(batches) :
        /\ batches[k].done = TrueText
        /\ \A j \in 1..(k - 1) : batches[j].done # TrueText

\* C25: the generator yields the records of the fetched batches in batch
\* order and in document order within a batch; queryMore is called once for
\* every batch that was not done, after all records of that batch have been
\* yielded; the iteration ends after the first batch that is done, with every
\* record up to there yielded, and ends in no other way.
C25_QueryPagination ==
    LET k == FirstDone(gen.all)
        fetched == Len(gen.sent)
        texts == [i \in 1..Len(gen.yielded) |-> Element_str(gen.yielded[i])]
    IN gen.status # "none" =>
        /\ gen.status \in {"created", "suspended", "done"}
        /\ gen.sent = <<"query">> \o [i \in 1..(fetched - 1) |-> "queryMore"]
        /\ fetched <= k
        /\ texts = SubSeq(RecordsOf(SubSeq(gen.all, 1, fetched)), 1, Len(texts))
        /\ Len(texts) >= Len(RecordsOf(SubSeq(gen.all, 1, fetched - 1)))
        /\ gen.status = "done" =>
            /\ fetched = k
            /\ texts = RecordsOf(SubSeq(gen.all, 1, k))

====
